---- MODULE Spec2Model ----
(***************************************************************************)
(* Verification model of the laboratory-instrument middleware              *)
(* (AireshBhat/nramh-lis, src-tauri).                                      *)
(*                                                                         *)
(* Part A - AutoQuantMerilService (services/autoquant_meril.rs): the TCP   *)
(*   listener, the accept loop, the per-connection driver task and the     *)
(*   byte-level ASTM state machine of process_astm_data.                   *)
(*                                                                         *)
(* Bytes are the integers 0..255 the code sees on the socket.  One action  *)
(* of the driver is one iteration of the `for &byte in data` loop of       *)
(* process_astm_data; the driver holds the connections write lock from the *)
(* read until the chunk is consumed (variable busy).  socket writes are    *)
(* taken to succeed (the Err branches of write_all are transport failures  *)
(* of the peer, outside the sessions studied here).                        *)
(*                                                                         *)
(* Part B - BF6900Service (services/bf6900_service.rs; BF6500Service has   *)
(*   the same code) with protocol/hl7_parser.rs: the HL7 driver task,      *)
(*   process_hl7_data with its MLLP reassembly buffer, the parser, the     *)
(*   content validation and the acknowledgments.  One action of the HL7    *)
(*   driver is one call of process_hl7_data on the chunk read.             *)
(***************************************************************************)
EXTENDS Integers, Sequences, FiniteSets, TLC

\* ------------------------------------------------------------------------
\* ASTM protocol constants (autoquant_meril.rs:95-103)
\* ------------------------------------------------------------------------
ASTM_ENQ == 5
ASTM_ACK == 6
ASTM_NAK == 21
ASTM_EOT == 4
ASTM_STX == 2
ASTM_ETX == 3
ASTM_ETB == 23
ASTM_CR == 13
ASTM_LF == 10

\* ASCII codes of the characters the record parsers look at
ChR == 82
ChP == 80
ChBar == 124
ChCaret == 94
\* '0', which the frame codec adds to the sequence number; '1' is frame 1
Ch0 == 48

\* ------------------------------------------------------------------------
\* Bounds of the model
\* ------------------------------------------------------------------------
\* data bytes the analyzer puts between STX and the terminator of one frame
MaxData == 5
\* frames the analyzer starts within one ENQ..EOT transmission
MaxFrames == 1
\* connections the listener accepts in one run
MaxAccepts == 2
\* length of the run of malformed frames of the retry-exhaustion scenario
MalformedRun == 6

\* bytes the HL7 reassembly buffer holds before the analyzer stops sending
MaxBuffer == 48
\* retry_count up to which the HL7 analyzer keeps sending
MaxRetries == 6
\* responses of one read among which the failing write_all is chosen
MaxFailAt == 2
\* reads with a failing write_all between two accepted messages
MaxIoErrors == 1
\* bytes of the texts the framing functions are applied to
MaxText == 6
\* bytes of content of the frames the ASTM frame codec is applied to
MaxContent == 3

MaxFrameLen == MaxData + 5

VARIABLES
    is_running,     \* AutoQuantMerilService.is_running
    listener,       \* AutoQuantMerilService.listener: "None" | "Some"
    accept_loop,    \* the spawned handle_connections_loop task: "none" | "running" | "exited"
    connections,    \* HashMap<String, Connection>: function on a subset of {AnalyzerId}
    drivers,        \* number of live handle_connection tasks
    busy,           \* a driver is inside process_astm_data (holds the write lock)
    pending,        \* bytes of the chunk read that the loop has not consumed yet
    effects,        \* socket writes and events of the latest step, in order
    accepts,        \* connections accepted so far
    lastState,      \* history: FSM state in which the latest byte was consumed
    lastByte,       \* history: the latest byte consumed (-1: the latest step consumed
                    \* none, -2: it was a read that timed out)
    pubsInTx,       \* history: LabResultProcessed events since the last accepted ENQ
    eotInTx,        \* history: an EOT byte was consumed since the last accepted ENQ
    laterTx,        \* history: the latest ENQ accepted on the current connection
                    \* followed a transmission that ended with a publication
    badRun,         \* history: consecutive malformed frames sent since WaitingForFrame
    naksInRun,      \* history: NAK bytes written during that run
    bf_is_running,  \* BF6900Service.is_running
    bf_connections, \* HashMap<String, HL7Connection>: function on a subset of {Bf6900Id}
    bf_drivers,     \* number of live BF6900 handle_connection tasks
    bf_effects,     \* socket writes and events of the latest BF6900 step, in order
    bf_accepts,     \* HL7 connections accepted so far
    bf_read,        \* history: message_buffer with the chunk appended, before extraction
    bf_failedMsgs,  \* history: messages that failed to parse or validate since the last accepted one
    bf_ioErrors,    \* history: reads whose processing returned Err since the last accepted message
    bf_before,      \* history: retry_count when the latest read began (-1: the latest
                    \* step was no read, -2: it was a read that timed out)
    codec_text,     \* the bytes a framing function is applied to; the session buffer for extract
    codec_op,       \* the framing function applied by the latest step ("none": none yet)
    codec_out,      \* its argument and result
    status,         \* analyzer.status of the service: "Inactive" | "Active"
    loops,          \* position of every live handle_connections_loop task
    sent,           \* statuses of the AnalyzerStatusUpdated events sent by the latest step
    meril_service_handle, \* AppState.meril_service_handle: "None" or the state of the task
    calls,          \* history: the latest two start and stop requests that returned
    bf6900_service_handle, \* AppState.bf6900_service_handle: "None" or the state of the task
    boot,           \* history: what initialize() was given, did and returned
    handled,        \* the event handlers of the supervisor: events taken, tasks spawned
    lk,             \* position of the stop() in progress and of every driver task
                    \* with respect to the connections lock
    his,            \* the task delivering one payload to the HIS: position, posts, result
    config          \* the "config" value of meril.json and of bf6900.json, the analyzer
                    \* of each service, the latest update request and its response

astmVars == <<is_running, listener, accept_loop, connections, drivers, busy, pending,
              effects, accepts, lastState, lastByte, pubsInTx, eotInTx, laterTx, badRun,
              naksInRun>>

hl7Vars == <<bf_is_running, bf_connections, bf_drivers, bf_effects, bf_accepts, bf_read,
             bf_failedMsgs, bf_ioErrors, bf_before>>

codecVars == <<codec_text, codec_op, codec_out>>

lifeVars == <<status, loops, sent, meril_service_handle, calls, bf6900_service_handle, boot,
             lk, handled>>

vars == <<astmVars, hl7Vars, codecVars, lifeVars, his, config>>

AnalyzerId == "autoquant"

\* ------------------------------------------------------------------------
\* Helpers on byte sequences
\* ------------------------------------------------------------------------
RECURSIVE SumBytes(_)
SumBytes(s) == IF s = <<>> THEN 0 ELSE (Head(s) + SumBytes(Tail(s))) % 256

\* the sum of the bytes, not reduced
RECURSIVE SumWide(_)
SumWide(s) == IF s = <<>> THEN 0 ELSE Head(s) + SumWide(Tail(s))

\* slice.iter().position(|&b| b == x): 1-based index of the first x, 0 if none
Position(s, x) ==
    IF \E i \in 1..Len(s) : s[i] = x
    THEN CHOOSE i \in 1..Len(s) : s[i] = x /\ \A j \in 1..(i-1) : s[j] # x
    ELSE 0

\* str::split(sep): the pieces between separators, empty pieces kept
RECURSIVE SplitOn(_, _)
SplitOn(s, sep) ==
    LET p == Position(s, sep)
    IN  IF p = 0 THEN <<s>>
        ELSE <<SubSeq(s, 1, p - 1)>> \o SplitOn(SubSeq(s, p + 1, Len(s)), sep)

\* ------------------------------------------------------------------------
\* String::from_utf8_lossy: valid UTF-8 sequences are kept, every maximal
\* ill-formed prefix becomes one U+FFFD
\* ------------------------------------------------------------------------
\* the encoding of U+FFFD, which from_utf8_lossy puts for invalid input
ReplacementChar == <<239, 191, 189>>

IsContinuation(b) == b \in 128..191

SecondByteOk(lead, b) ==
    CASE lead = 224 -> b \in 160..191
      [] lead = 237 -> b \in 128..159
      [] lead = 240 -> b \in 144..191
      [] lead = 244 -> b \in 128..143
      [] OTHER -> IsContinuation(b)

RECURSIVE from_utf8_lossy(_)
from_utf8_lossy(s) ==
    IF s = <<>> THEN <<>>
    ELSE LET b == s[1]
             n == Len(s)
             width == IF b < 128 THEN 1
                      ELSE IF b \in 194..223 THEN 2
                      ELSE IF b \in 224..239 THEN 3
                      ELSE IF b \in 240..244 THEN 4
                      ELSE 0
             v2 == n >= 2 /\ SecondByteOk(b, s[2])
             v3 == v2 /\ n >= 3 /\ IsContinuation(s[3])
             v4 == v3 /\ n >= 4 /\ IsContinuation(s[4])
             valid == \/ width = 1
                      \/ width = 2 /\ v2
                      \/ width = 3 /\ v3
                      \/ width = 4 /\ v4
             taken == IF valid THEN width
                      ELSE IF width = 4 /\ v3 THEN 3
                      ELSE IF width >= 3 /\ v2 THEN 2
                      ELSE 1
         IN  (IF valid THEN SubSeq(s, 1, taken) ELSE ReplacementChar)
             \o from_utf8_lossy(SubSeq(s, taken + 1, n))

\* ------------------------------------------------------------------------
\* Effects of a step: bytes written to the socket and events sent on the
\* mpsc channel, in program order
\* ------------------------------------------------------------------------
Wr(b) == [kind |-> "write", byte |-> b, name |-> "", patient_id |-> <<>>, test_results |-> <<>>]

Ev(n) == [kind |-> "event", byte |-> 0, name |-> n, patient_id |-> <<>>, test_results |-> <<>>]

EvLab(pid, results) ==
    [kind |-> "event", byte |-> 0, name |-> "LabResultProcessed",
     patient_id |-> pid, test_results |-> results]

\* ------------------------------------------------------------------------
\* Connection (autoquant_meril.rs:120-128); stream and remote_addr carry no
\* protocol state, analyzer_id is the map key
\* ------------------------------------------------------------------------
NewConnection == [state |-> "WaitingForEnq", frame_buffer |-> <<>>, current_frame |-> <<>>]

NoConnections == [k \in {} |-> NewConnection]

\* ------------------------------------------------------------------------
\* Frame functions
\* ------------------------------------------------------------------------
\* validate_checksum: u8 wrapping sum of frame[0 .. len-3], compared mod 8
\* with the byte at len-3
validate_checksum(frame) ==
    IF Len(frame) < 6 THEN FALSE
    ELSE SumBytes(SubSeq(frame, 1, Len(frame) - 3)) % 8 = frame[Len(frame) - 2]

\* extract_frame_data: the bytes strictly between the first STX and the
\* first ETX; Err when the frame is shorter than 6 or STX/ETX are missing
extract_frame_data(frame) ==
    LET stx == Position(frame, ASTM_STX)
        etx == Position(frame, ASTM_ETX)
    IN  IF Len(frame) < 6 THEN [ok |-> FALSE, data |-> <<>>]
        ELSE IF stx # 0 /\ etx # 0 /\ stx < etx
             THEN [ok |-> TRUE, data |-> SubSeq(frame, stx + 1, etx - 1)]
             ELSE [ok |-> FALSE, data |-> <<>>]

\* parse_record_type: Err on empty data, otherwise reads frame_data[1] (the
\* second byte), which is out of bounds - a panic - for one-byte data
RecordTypeAt(frame_data) ==
    LET c == frame_data[2]
    IN  IF c = ChR THEN "Result"
        ELSE IF c = ChP THEN "Patient"
        ELSE IF c \in {72, 79, 67, 81, 76} THEN "Other"
        ELSE "Unknown"

parse_record_type(frame_data) ==
    IF frame_data = <<>> THEN [res |-> "err", type |-> ""]
    ELSE IF Len(frame_data) < 2 THEN [res |-> "panic", type |-> ""]
    ELSE [res |-> "ok", type |-> RecordTypeAt(frame_data)]

\* parse_result_record: fields split on '|'; Err below 4 fields
parse_result_record(frame_data) ==
    LET fields == SplitOn(from_utf8_lossy(frame_data), ChBar)
        parts == SplitOn(fields[4], ChCaret)
    IN  IF Len(fields) < 4 THEN [ok |-> FALSE, result |-> <<>>]
        ELSE [ok |-> TRUE,
              result |-> <<[test_id |-> parts[Len(parts)],
                            sample_id |-> fields[3],
                            value |-> IF Len(fields) >= 5 THEN fields[5] ELSE <<>>]>>]

\* parse_patient_record: fields split on '|'; Err below 2 fields; id is
\* fields[3] of the code (0-based), empty when absent
parse_patient_record(frame_data) ==
    LET fields == SplitOn(from_utf8_lossy(frame_data), ChBar)
    IN  IF Len(fields) < 2 THEN [ok |-> FALSE, id |-> <<>>]
        ELSE [ok |-> TRUE, id |-> IF Len(fields) >= 4 THEN fields[4] ELSE <<>>]

\* process_frame: the checksum is validated and only logged; the frame is
\* pushed on frame_buffer and AstmMessageReceived is sent when
\* extract_frame_data and parse_record_type succeed
process_frame(conn) ==
    LET ex == extract_frame_data(conn.current_frame)
        rt == parse_record_type(ex.data)
    IN  IF ~ex.ok THEN [res |-> "err", conn |-> conn, eff |-> <<>>]
        ELSE IF rt.res # "ok" THEN [res |-> rt.res, conn |-> conn, eff |-> <<>>]
        ELSE [res |-> "ok",
              conn |-> [conn EXCEPT !.frame_buffer = Append(@, conn.current_frame)],
              eff |-> <<Ev("AstmMessageReceived")>>]

\* process_complete_message: walks frame_buffer, keeps the last Patient
\* record and every Result record that parses, and sends LabResultProcessed
RECURSIVE CollectRecords(_, _, _)
CollectRecords(frames, pid, results) ==
    IF frames = <<>> THEN [res |-> "ok", patient_id |-> pid, test_results |-> results]
    ELSE LET ex == extract_frame_data(Head(frames))
             rt == parse_record_type(ex.data)
         IN  IF ~ex.ok THEN CollectRecords(Tail(frames), pid, results)
             ELSE IF rt.res # "ok"
                  THEN [res |-> rt.res, patient_id |-> pid, test_results |-> results]
             ELSE IF rt.type = "Patient"
                  THEN LET p == parse_patient_record(ex.data)
                       IN  CollectRecords(Tail(frames),
                                          IF p.ok THEN <<p.id>> ELSE pid, results)
             ELSE IF rt.type = "Result"
                  THEN LET r == parse_result_record(ex.data)
                       IN  CollectRecords(Tail(frames), pid,
                                          IF r.ok THEN results \o r.result ELSE results)
             ELSE CollectRecords(Tail(frames), pid, results)

process_complete_message(conn) ==
    LET c == CollectRecords(conn.frame_buffer, <<>>, <<>>)
    IN  [res |-> c.res,
         eff |-> IF c.res = "ok" THEN <<EvLab(c.patient_id, c.test_results)>> ELSE <<>>]

\* ------------------------------------------------------------------------
\* process_astm_data: one iteration of `for &byte in data`, by FSM state.
\* A step yields out = "next" (go on with the chunk), "break" (leave the
\* loop, Ok), "err" (return Err, the rest of the chunk is dropped) or
\* "panic" (the driver task unwinds).
\* ------------------------------------------------------------------------
\* variant: ENQ opens the transmission without the ACK being written
StepWaitingForEnq_NoAck(conn, byte) ==
    IF byte = ASTM_ENQ
    THEN [out |-> "next", conn |-> [conn EXCEPT !.state = "WaitingForFrame"], eff |-> <<>>]
    ELSE [out |-> "next", conn |-> conn, eff |-> <<>>]

StepWaitingForEnq(conn, byte) ==
    IF byte = ASTM_ENQ
    THEN [out |-> "next", conn |-> [conn EXCEPT !.state = "WaitingForFrame"],
          eff |-> <<Wr(ASTM_ACK)>>]
    ELSE [out |-> "next", conn |-> conn, eff |-> <<>>]

\* variant: on EOT the ACK is written first and the message is finalized
\* after it
StepWaitingForFrame_AckFirst(conn, byte) ==
    IF byte = ASTM_STX
    THEN [out |-> "next",
          conn |-> [conn EXCEPT !.current_frame = <<byte>>, !.state = "ProcessingFrame"],
          eff |-> <<>>]
    ELSE IF byte = ASTM_EOT
    THEN LET m == process_complete_message(conn)
         IN  IF m.res # "ok" THEN [out |-> m.res, conn |-> conn, eff |-> <<Wr(ASTM_ACK)>>]
             ELSE [out |-> "break",
                   conn |-> [state |-> "WaitingForEnq", frame_buffer |-> <<>>,
                             current_frame |-> <<>>],
                   eff |-> <<Wr(ASTM_ACK)>> \o m.eff]
    ELSE [out |-> "next", conn |-> conn, eff |-> <<>>]

\* variant: on EOT the message is finalized and acknowledged but the session
\* stays in WaitingForFrame
StepWaitingForFrame_NoReset(conn, byte) ==
    IF byte = ASTM_STX
    THEN [out |-> "next",
          conn |-> [conn EXCEPT !.current_frame = <<byte>>, !.state = "ProcessingFrame"],
          eff |-> <<>>]
    ELSE IF byte = ASTM_EOT
    THEN LET m == process_complete_message(conn)
         IN  IF m.res # "ok" THEN [out |-> m.res, conn |-> conn, eff |-> <<>>]
             ELSE [out |-> "break", conn |-> conn, eff |-> m.eff \o <<Wr(ASTM_ACK)>>]
    ELSE [out |-> "next", conn |-> conn, eff |-> <<>>]

StepWaitingForFrame(conn, byte) ==
    IF byte = ASTM_STX
    THEN [out |-> "next",
          conn |-> [conn EXCEPT !.current_frame = <<byte>>, !.state = "ProcessingFrame"],
          eff |-> <<>>]
    ELSE IF byte = ASTM_EOT
    THEN LET m == process_complete_message(conn)
         IN  IF m.res # "ok" THEN [out |-> m.res, conn |-> conn, eff |-> <<>>]
             ELSE [out |-> "break",
                   conn |-> [state |-> "WaitingForEnq", frame_buffer |-> <<>>,
                             current_frame |-> <<>>],
                   eff |-> m.eff \o <<Wr(ASTM_ACK)>>]
    ELSE [out |-> "next", conn |-> conn, eff |-> <<>>]

StepProcessingFrame(conn, byte) ==
    [out |-> "next",
     conn |-> [conn EXCEPT !.current_frame = Append(@, byte),
                           !.state = IF byte = ASTM_ETX \/ byte = ASTM_ETB
                                     THEN "WaitingForChecksum" ELSE @],
     eff |-> <<>>]

StepWaitingForChecksum(conn, byte) ==
    [out |-> "next",
     conn |-> [conn EXCEPT !.current_frame = Append(@, byte), !.state = "WaitingForCR"],
     eff |-> <<>>]

StepWaitingForCR(conn, byte) ==
    IF byte = ASTM_CR
    THEN [out |-> "next",
          conn |-> [conn EXCEPT !.current_frame = Append(@, byte), !.state = "WaitingForLF"],
          eff |-> <<>>]
    ELSE [out |-> "err", conn |-> conn, eff |-> <<>>]

StepWaitingForLF(conn, byte) ==
    IF byte = ASTM_LF
    THEN LET pushed == [conn EXCEPT !.current_frame = Append(@, byte)]
             f == process_frame(pushed)
         IN  IF f.res = "err"
             THEN [out |-> "err", conn |-> f.conn, eff |-> <<Wr(ASTM_NAK)>>]
             ELSE IF f.res = "panic"
             THEN [out |-> "panic", conn |-> f.conn, eff |-> <<>>]
             ELSE [out |-> "next",
                   conn |-> [f.conn EXCEPT !.current_frame = <<>>,
                                           !.state = "WaitingForFrame"],
                   eff |-> f.eff \o <<Wr(ASTM_ACK)>>]
    ELSE [out |-> "err", conn |-> conn, eff |-> <<>>]

process_astm_byte(conn, byte) ==
    CASE conn.state = "WaitingForEnq" -> StepWaitingForEnq(conn, byte)
      [] conn.state = "WaitingForFrame" -> StepWaitingForFrame(conn, byte)
      [] conn.state = "ProcessingFrame" -> StepProcessingFrame(conn, byte)
      [] conn.state = "WaitingForChecksum" -> StepWaitingForChecksum(conn, byte)
      [] conn.state = "WaitingForCR" -> StepWaitingForCR(conn, byte)
      [] conn.state = "WaitingForLF" -> StepWaitingForLF(conn, byte)
      [] OTHER -> [out |-> "break", conn |-> conn, eff |-> <<>>]

\* ------------------------------------------------------------------------
\* What the analyzer sends in one read, by the state the session is in
\* ------------------------------------------------------------------------
Single == {<<ASTM_ENQ>>, <<ASTM_EOT>>, <<ASTM_STX>>, <<ASTM_ETX>>, <<ASTM_ETB>>,
           <<ASTM_CR>>, <<ASTM_LF>>, <<ChR>>}

\* "1R|||": frame number 1 and a result record of 4 fields, the text that
\* Frame::encode of protocol/astm puts between STX and the terminator
PayloadNumbered == <<Ch0 + 1, ChR, ChBar, ChBar, ChBar>>

\* "R|||": a result record right after STX, the frame number left out (the
\* layout test_astm_client.rs sends)
PayloadResult == <<ChR, ChBar, ChBar, ChBar>>

\* a complete frame that is too short to decode: STX ETX checksum CR LF
MalformedFrame == <<ASTM_STX, ASTM_ETX, ASTM_ENQ, ASTM_CR, ASTM_LF>>

\* EOT and the ENQ of the next transmission arriving in one read
EotEnq == <<ASTM_EOT, ASTM_ENQ>>

ClientChunks(conn) ==
    CASE conn.state = "WaitingForEnq" -> Single \cup {EotEnq}
      [] conn.state = "WaitingForFrame" ->
            (Single \ {<<ASTM_STX>>}) \cup {EotEnq}
            \cup (IF Len(conn.frame_buffer) < MaxFrames
                  THEN {<<ASTM_STX>>, MalformedFrame} ELSE {})
      [] conn.state = "ProcessingFrame" ->
            {<<ASTM_ETX>>, <<ASTM_ETB>>}
            \cup {c \in (IF conn.current_frame = <<ASTM_STX>>
                         THEN {PayloadNumbered, PayloadResult, <<ChR>>} ELSE {})
                        \cup {<<ASTM_STX>>} :
                     Len(conn.current_frame) - 1 + Len(c) <= MaxData}
      [] conn.state = "WaitingForChecksum" ->
            {<<ASTM_ETX>>, <<ASTM_EOT>>, <<ASTM_STX>>}
      [] conn.state = "WaitingForCR" -> {<<ASTM_CR>>, <<ASTM_LF>>, <<ASTM_STX>>, MalformedFrame}
      [] conn.state = "WaitingForLF" ->
            {<<ASTM_CR>>, <<ASTM_STX>>, <<ASTM_EOT>>, MalformedFrame}
            \cup (IF Len(conn.current_frame) < MaxFrameLen THEN {<<ASTM_LF>>} ELSE {})
      [] OTHER -> {}

\* ------------------------------------------------------------------------
\* MLLP constants (protocol/hl7_parser.rs:10-16) and the strings the HL7
\* code compares with, as bytes
\* ------------------------------------------------------------------------
MLLP_START_BLOCK == 11
MLLP_END_BLOCK == 28
MLLP_CARRIAGE_RETURN == 13

\* '\n', the separator of str::lines()
ChLF == 10

\* "MSH"
StrMSH == <<77, 83, 72>>

\* "PID"
StrPID == <<80, 73, 68>>

\* "OBX"
StrOBX == <<79, 66, 88>>

\* "ORM"
StrORM == <<79, 82, 77>>

\* "ORR"
StrORR == <<79, 82, 82>>

\* "ACK"
StrACK == <<65, 67, 75>>

\* "UNKNOWN"
StrUNKNOWN == <<85, 78, 75, 78, 79, 87, 78>>

\* "MSA|"
StrMSA == <<77, 83, 65, 124>>

\* "ORU^R01"
TypeORU_R01 == <<79, 82, 85, 94, 82, 48, 49>>

\* "OUL^R21"
TypeOUL_R21 == <<79, 85, 76, 94, 82, 50, 49>>

\* "ORM^O01"
TypeORM_O01 == <<79, 82, 77, 94, 79, 48, 49>>

\* "ORR^O02"
TypeORR_O02 == <<79, 82, 82, 94, 79, 48, 50>>

\* "AA"
CodeAA == <<65, 65>>

\* "AE"
CodeAE == <<65, 69>>

Bf6900Id == "bf6900"

\* ------------------------------------------------------------------------
\* HL7Connection (bf6900_service.rs:29-39): the fields the protocol code
\* reads or writes
\* ------------------------------------------------------------------------
NewHL7Connection ==
    [message_buffer |-> <<>>, retry_count |-> 0, health_status |-> "Healthy"]

NoHL7Connections == [k \in {} |-> NewHL7Connection]

WrBytes(bs) == [kind |-> "write", bytes |-> bs]

EvHematology(pid, results) ==
    [kind |-> "event", byte |-> 0, name |-> "HematologyResultProcessed",
     patient_id |-> pid, test_results |-> results]

\* str::is_char_boundary(index), index 0-based
is_char_boundary(s, index) ==
    \/ index = 0
    \/ index = Len(s)
    \/ index < Len(s) /\ ~IsContinuation(s[index + 1])

\* char::is_whitespace over one-byte characters
IsWhitespace(b) == b \in {9, 10, 11, 12, 13, 32}

\* segment_line.trim().is_empty()
TrimIsEmpty(line) == \A i \in 1..Len(line) : IsWhitespace(line[i])

starts_with(s, prefix) ==
    Len(s) >= Len(prefix) /\ SubSeq(s, 1, Len(prefix)) = prefix

\* fields.get(i).unwrap_or(""), i 0-based
FieldOr(fields, i) == IF i < Len(fields) THEN fields[i + 1] ELSE <<>>

\* ------------------------------------------------------------------------
\* protocol/hl7_parser.rs
\* ------------------------------------------------------------------------
\* parse_hl7_segment: Err below 3 bytes; the slice [0..3] panics when byte
\* index 3 is inside a multi-byte character
parse_hl7_segment(segment_line) ==
    IF Len(segment_line) < 3 THEN [res |-> "err", segment |-> <<>>]
    ELSE IF ~is_char_boundary(segment_line, 3) THEN [res |-> "panic", segment |-> <<>>]
    ELSE [res |-> "ok",
          segment |-> [segment_type |-> SubSeq(segment_line, 1, 3),
                       fields |-> SplitOn(segment_line, ChBar)]]

\* parse_msh_segment: Err below 12 fields
parse_msh_segment(segment) ==
    IF segment.segment_type # StrMSH \/ Len(segment.fields) < 12
    THEN [ok |-> FALSE, message_type |-> <<>>, message_control_id |-> <<>>]
    ELSE [ok |-> TRUE, message_type |-> segment.fields[9],
          message_control_id |-> segment.fields[10]]

\* the `for segment_line in segment_lines` loop of parse_hl7_message
RECURSIVE ParseSegmentLines(_, _)
ParseSegmentLines(lines, msg) ==
    IF lines = <<>> THEN [res |-> "ok", msg |-> msg]
    ELSE IF TrimIsEmpty(Head(lines)) THEN ParseSegmentLines(Tail(lines), msg)
    ELSE LET p == parse_hl7_segment(Head(lines))
         IN  IF p.res # "ok" THEN [res |-> p.res, msg |-> msg]
             ELSE IF p.segment.segment_type = StrMSH
             THEN LET msh == parse_msh_segment(p.segment)
                  IN  IF ~msh.ok THEN [res |-> "err", msg |-> msg]
                      ELSE ParseSegmentLines(Tail(lines),
                               [message_type |-> msh.message_type,
                                message_control_id |-> msh.message_control_id,
                                segments |-> Append(msg.segments, p.segment)])
             ELSE ParseSegmentLines(Tail(lines),
                      [msg EXCEPT !.segments = Append(@, p.segment)])

parse_hl7_message(message_content) ==
    LET empty == [message_type |-> <<>>, message_control_id |-> <<>>, segments |-> <<>>]
    IN  IF message_content = <<>> THEN [res |-> "err", msg |-> empty]
        ELSE ParseSegmentLines(SplitOn(message_content, MLLP_CARRIAGE_RETURN), empty)

is_supported_message_type(message_type) ==
    message_type \in {TypeORU_R01, TypeOUL_R21, TypeORM_O01, TypeORR_O02, StrACK}

\* create_hl7_acknowledgment: the MSA segment "MSA|<code>|<control id>"
\* closed by CR.  The MSH line before it (it carries the clock) and the free
\* text after the control id are left out of the bytes.
create_hl7_acknowledgment(original_message, ack_code) ==
    StrMSA \o ack_code \o <<ChBar>> \o original_message.message_control_id
    \o <<MLLP_CARRIAGE_RETURN>>

\* ------------------------------------------------------------------------
\* services/bf6900_service.rs
\* ------------------------------------------------------------------------
\* str::lines(): split at '\n'; a '\r' right before the '\n' goes with it
RECURSIVE Lines(_)
Lines(s) ==
    IF s = <<>> THEN <<>>
    ELSE LET p == Position(s, ChLF)
             line == SubSeq(s, 1, p - 1)
         IN  IF p = 0 THEN <<s>>
             ELSE <<IF line # <<>> /\ line[Len(line)] = MLLP_CARRIAGE_RETURN
                    THEN SubSeq(line, 1, Len(line) - 1) ELSE line>>
                  \o Lines(SubSeq(s, p + 1, Len(s)))

\* create_hl7_nak_response: "MSA|AE|<control id>", the control id being
\* field 9 of the first line that starts with "MSH", else "UNKNOWN".  The
\* MSH line before it and the error text after the control id are left out
\* of the bytes.
create_hl7_nak_response(original_message) ==
    LET ls == Lines(original_message)
        found == {i \in 1..Len(ls) : starts_with(ls[i], StrMSH)}
        msh_line == ls[CHOOSE i \in found : \A j \in found : i <= j]
        fields == SplitOn(msh_line, ChBar)
        original_control_id ==
            IF found # {} /\ Len(fields) >= 10 THEN fields[10] ELSE StrUNKNOWN
    IN  StrMSA \o CodeAE \o <<ChBar>> \o original_control_id

\* send_hl7_response: VT, the response, FS, CR in one write_all
send_hl7_response(response) ==
    WrBytes(<<MLLP_START_BLOCK>> \o response \o <<MLLP_END_BLOCK, MLLP_CARRIAGE_RETURN>>)

\* variant: the buffer is drained through FS only, the CR stays
extract_complete_mllp_message_KeepCR(buffer) ==
    LET start_pos == Position(buffer, MLLP_START_BLOCK)
        ends == {i \in (start_pos + 1)..(Len(buffer) - 1) :
                    buffer[i] = MLLP_END_BLOCK /\ buffer[i + 1] = MLLP_CARRIAGE_RETURN}
        i == CHOOSE e \in ends : \A o \in ends : e <= o
    IN  IF buffer = <<>> \/ start_pos = 0 \/ ends = {}
        THEN [found |-> FALSE, message_data |-> <<>>, buffer |-> buffer]
        ELSE [found |-> TRUE,
              message_data |-> SubSeq(buffer, start_pos + 1, i - 1),
              buffer |-> SubSeq(buffer, i + 1, Len(buffer))]

\* extract_complete_mllp_message: the bytes between the first VT and the
\* first FS CR after it; the buffer is drained through that CR
extract_complete_mllp_message(buffer) ==
    LET start_pos == Position(buffer, MLLP_START_BLOCK)
        ends == {i \in (start_pos + 1)..(Len(buffer) - 1) :
                    buffer[i] = MLLP_END_BLOCK /\ buffer[i + 1] = MLLP_CARRIAGE_RETURN}
        i == CHOOSE e \in ends : \A o \in ends : e <= o
    IN  IF buffer = <<>> \/ start_pos = 0 \/ ends = {}
        THEN [found |-> FALSE, message_data |-> <<>>, buffer |-> buffer]
        ELSE [found |-> TRUE,
              message_data |-> SubSeq(buffer, start_pos + 1, i - 1),
              buffer |-> SubSeq(buffer, i + 2, Len(buffer))]

HasSegment(message, type) ==
    \E i \in 1..Len(message.segments) : message.segments[i].segment_type = type

\* variant: the check for observation results is left out
validate_hl7_message_content_NoObxCheck(message) ==
    /\ message.segments # <<>>
    /\ message.segments[1].segment_type = StrMSH
    /\ is_supported_message_type(message.message_type)

\* validate_hl7_message_content: TRUE for Ok(())
validate_hl7_message_content(message) ==
    /\ message.segments # <<>>
    /\ message.segments[1].segment_type = StrMSH
    /\ is_supported_message_type(message.message_type)
    /\ \/ HasSegment(message, StrOBX)
       \/ starts_with(message.message_type, StrORM)
       \/ starts_with(message.message_type, StrORR)

\* process_hl7_message: the last PID gives the patient, every OBX a result;
\* HematologyResultProcessed is sent whatever was found
RECURSIVE CollectSegments(_, _, _)
CollectSegments(segments, pid, results) ==
    IF segments = <<>> THEN EvHematology(pid, results)
    ELSE LET seg == Head(segments)
         IN  IF seg.segment_type = StrPID
             THEN CollectSegments(Tail(segments), <<FieldOr(seg.fields, 3)>>, results)
             ELSE IF seg.segment_type = StrOBX
             THEN CollectSegments(Tail(segments), pid,
                      Append(results, [test_id |-> FieldOr(seg.fields, 3),
                                       sample_id |-> FieldOr(seg.fields, 4),
                                       value |-> FieldOr(seg.fields, 5)]))
             ELSE CollectSegments(Tail(segments), pid, results)

\* variant: the PID segments are passed over
process_hl7_message_NoPatient(hl7_message) ==
    LET NotPid(seg) == seg.segment_type # StrPID
    IN  CollectSegments(SelectSeq(hl7_message.segments, NotPid), <<>>, <<>>)

process_hl7_message(hl7_message) == CollectSegments(hl7_message.segments, <<>>, <<>>)

\* variant: the failure is reported but not counted
handle_hl7_processing_error_NoCount(connection) == connection

\* handle_hl7_processing_error
handle_hl7_processing_error(connection) ==
    [connection EXCEPT !.retry_count = @ + 1]

\* update_connection_health right after last_activity was set to now
update_connection_health(connection) ==
    [connection EXCEPT !.health_status =
        IF connection.retry_count <= 2 THEN "Healthy"
        ELSE IF connection.retry_count <= 5 THEN "Degraded"
        ELSE "Unhealthy"]

\* the `while let Some(message_data)` loop of process_hl7_data.  n counts
\* the responses written so far in this call; the write_all of response
\* number failAt fails (0: none does), and send_hl7_response's `?` then
\* returns Err.  out is "ok", "err" or "panic".
RECURSIVE ProcessFrames(_, _, _, _)
ProcessFrames(connection, eff, n, failAt) ==
    LET ex == extract_complete_mllp_message(connection.message_buffer)
        drained == [connection EXCEPT !.message_buffer = ex.buffer]
        message_str == from_utf8_lossy(ex.message_data)
        received == eff \o <<Ev("HL7MessageReceived")>>
        p == parse_hl7_message(message_str)
        nak == send_hl7_response(create_hl7_nak_response(message_str))
        write_fails == (n + 1 = failAt)
    IN  IF ~ex.found THEN [out |-> "ok", conn |-> connection, eff |-> eff]
        ELSE IF p.res = "panic" THEN [out |-> "panic", conn |-> drained, eff |-> received]
        ELSE IF p.res = "ok" /\ validate_hl7_message_content(p.msg)
        THEN IF write_fails
             THEN [out |-> "err", conn |-> drained, eff |-> received]
             ELSE ProcessFrames([drained EXCEPT !.retry_count = 0],
                      received \o <<send_hl7_response(create_hl7_acknowledgment(p.msg, CodeAA)),
                                    process_hl7_message(p.msg)>>,
                      n + 1, failAt)
        ELSE IF write_fails
             THEN [out |-> "err", conn |-> handle_hl7_processing_error(drained),
                   eff |-> received]
             ELSE ProcessFrames(handle_hl7_processing_error(drained), received \o <<nak>>,
                                n + 1, failAt)

process_hl7_data(connection, data, failAt) ==
    ProcessFrames([connection EXCEPT !.message_buffer = @ \o data], <<>>, 0, failAt)

\* ------------------------------------------------------------------------
\* What the HL7 analyzer sends in one read
\* ------------------------------------------------------------------------
\* "MSH||||||||ORU^R01|7|P|2\rPID|||9\rOBX|||W||5"
MsgValid == <<77, 83, 72, 124, 124, 124, 124, 124, 124, 124, 124, 79, 82, 85, 94, 82, 48, 49, 124, 55, 124, 80, 124, 50, 13, 80, 73, 68, 124, 124, 124, 57, 13, 79, 66, 88, 124, 124, 124, 87, 124, 124, 53>>

\* "MSH||||||||ADT^A01|8|P|2\rOBX|1": a message type that is not supported
MsgUnsupported == <<77, 83, 72, 124, 124, 124, 124, 124, 124, 124, 124, 65, 68, 84, 94, 65, 48, 49, 124, 56, 124, 80, 124, 50, 13, 79, 66, 88, 124, 49>>

\* "MSH||||||||ORU^R01|9|P|2": a result message without OBX
MsgNoObx == <<77, 83, 72, 124, 124, 124, 124, 124, 124, 124, 124, 79, 82, 85, 94, 82, 48, 49, 124, 57, 124, 80, 124, 50>>

\* "MSH||||||||ORM^O01|6|P|2": a worklist message
MsgWorklist == <<77, 83, 72, 124, 124, 124, 124, 124, 124, 124, 124, 79, 82, 77, 94, 79, 48, 49, 124, 54, 124, 80, 124, 50>>

\* "MSH||||||||ORU^R01|5|P|2\rOB": the second segment is too short
MsgShortSegment == <<77, 83, 72, 124, 124, 124, 124, 124, 124, 124, 124, 79, 82, 85, 94, 82, 48, 49, 124, 53, 124, 80, 124, 50, 13, 79, 66>>

\* "MSH|^~\&|4": an MSH segment with too few fields
MsgFewFields == <<77, 83, 72, 124, 94, 126, 92, 38, 124, 52>>

\* "ab" and U+00E9 in UTF-8: byte index 3 is inside the two-byte character
MsgAccent == <<97, 98, 195, 169>>

\* "PI" and 0xE9, the Latin-1 e-acute, which is not valid UTF-8
MsgLatin1 == <<80, 73, 233>>

Messages == {MsgValid, MsgUnsupported, MsgNoObx, MsgWorklist, MsgShortSegment,
             MsgFewFields, MsgAccent, MsgLatin1}

\* extract_mllp_message (protocol/hl7_parser.rs): Err without a VT or
\* without an FS CR pair after the first VT, else the bytes between them
extract_mllp_message(data) ==
    LET start_pos == Position(data, MLLP_START_BLOCK)
        ends == {i \in (start_pos + 1)..(Len(data) - 1) :
                    data[i] = MLLP_END_BLOCK /\ data[i + 1] = MLLP_CARRIAGE_RETURN}
        end_pos == CHOOSE e \in ends : \A o \in ends : e <= o
    IN  IF start_pos = 0 \/ ends = {} THEN [ok |-> FALSE, message_content |-> <<>>]
        ELSE [ok |-> TRUE, message_content |-> SubSeq(data, start_pos + 1, end_pos - 1)]

\* variant: the frame is closed by FS alone
create_mllp_frame_NoCR(hl7_message) ==
    <<MLLP_START_BLOCK>> \o hl7_message \o <<MLLP_END_BLOCK>>

\* create_mllp_frame (protocol/hl7_parser.rs): VT, the message, FS, CR
create_mllp_frame(hl7_message) ==
    <<MLLP_START_BLOCK>> \o hl7_message \o <<MLLP_END_BLOCK, MLLP_CARRIAGE_RETURN>>

\* two frames arriving in one read
TwoFrames == create_mllp_frame(MsgWorklist) \o create_mllp_frame(MsgFewFields)

\* what the analyzer goes on sending while the session counts failures
Retries == {MsgFewFields, MsgNoObx, MsgValid}

HL7Chunks(connection) ==
    LET buf == connection.message_buffer
        last == IF buf = <<>> THEN -1 ELSE buf[Len(buf)]
        open == Position(buf, MLLP_START_BLOCK) # 0
        candidates ==
            IF connection.retry_count > 0 THEN {create_mllp_frame(m) : m \in Retries}
            ELSE
            {create_mllp_frame(m) : m \in Messages} \cup {TwoFrames}
            \cup (IF buf = <<>> THEN {<<MLLP_START_BLOCK>>, <<ChBar>>} ELSE {})
            \cup (IF last = MLLP_START_BLOCK THEN Messages ELSE {})
            \cup (IF open /\ last # MLLP_END_BLOCK
                  THEN {<<MLLP_END_BLOCK>>, <<MLLP_END_BLOCK, MLLP_CARRIAGE_RETURN>>}
                  ELSE {})
            \cup (IF last = MLLP_END_BLOCK THEN {<<MLLP_CARRIAGE_RETURN>>, <<ChBar>>} ELSE {})
    IN  {c \in candidates : Len(buf) + Len(c) <= MaxBuffer}

\* ------------------------------------------------------------------------
\* Service and tasks
\* ------------------------------------------------------------------------
\* Option<T>
None == <<>>

Some(x) == <<x>>

\* create_default_meril_analyzer(): the fields the configuration commands
\* and the service read
create_default_meril_analyzer ==
    [connection_type |-> "TcpIp", ip_address |-> None, port |-> Some(5600),
     external_ip |-> None, external_port |-> None, protocol |-> "Astm",
     status |-> "Inactive"]

\* create_default_bf6900_analyzer()
create_default_bf6900_analyzer ==
    [connection_type |-> "TcpIp", ip_address |-> None, port |-> Some(9100),
     external_ip |-> None, external_port |-> None, protocol |-> "Hl7V231",
     status |-> "Inactive"]

\* HL7Settings::default(): the fields validate_hl7_settings reads
HL7Settings_default ==
    [timeout_ms |-> 10000, retry_attempts |-> 3, encoding |-> "UTF-8",
     supported_message_types |-> <<TypeORU_R01, TypeOUL_R21>>]

\* first run: both stores are empty and each service holds its default analyzer
InitConfig ==
    [meril_json |-> None, bf6900_json |-> None,
     autoquant_meril |-> create_default_meril_analyzer,
     bf6900 |-> create_default_bf6900_analyzer,
     request |-> None, response |-> None, seq |-> 0]

\* AutoQuantMerilService start() and stop(): write analyzer.status, then
\* save_analyzer_to_store() puts the analyzer of the service into meril.json
save_analyzer_to_store(cfg, new_status) ==
    LET analyzer == [cfg.autoquant_meril EXCEPT !.status = new_status]
    IN  [cfg EXCEPT !.autoquant_meril = analyzer,
                    !.meril_json = Some([analyzer |-> analyzer])]

\* BF6900Service start(): the same on bf6900.json, with the default HL7
\* settings beside the analyzer
save_bf6900_analyzer_to_store(cfg, new_status) ==
    LET analyzer == [cfg.bf6900 EXCEPT !.status = new_status]
    IN  [cfg EXCEPT !.bf6900 = analyzer,
                    !.bf6900_json = Some([analyzer |-> analyzer,
                                          hl7_settings |-> HL7Settings_default])]

\* no delivery task was spawned yet
NoDelivery ==
    [pc |-> "idle", payload |-> "", retry_attempts |-> 0, attempt |-> 0,
     posts |-> <<>>, responses |-> <<>>, sleeps |-> 0, result |-> "",
     spawned_running |-> FALSE, outlived_stop |-> FALSE]

\* the event handlers took no event yet
NoEvents == [count |-> 0, event |-> Ev(""), tasks |-> <<>>]

\* no stop() is in progress and no driver task runs
NoLockWaits == [stop |-> "none", drivers |-> <<>>]

\* initialize() was not called yet
NotBooted ==
    [done |-> FALSE, meril |-> FALSE, bf6900 |-> FALSE,
     meril_started |-> FALSE, bf6900_started |-> FALSE, result |-> ""]

InitServices ==
    /\ is_running = FALSE
    /\ listener = "None"
    /\ accept_loop = "none"
    /\ connections = NoConnections
    /\ drivers = 0
    /\ busy = FALSE
    /\ pending = <<>>
    /\ effects = <<>>
    /\ accepts = 0
    /\ lastState = ""
    /\ lastByte = -1
    /\ pubsInTx = 0
    /\ eotInTx = FALSE
    /\ laterTx = FALSE
    /\ badRun = 0
    /\ naksInRun = 0
    /\ bf_is_running = FALSE
    /\ bf_connections = NoHL7Connections
    /\ bf_drivers = 0
    /\ bf_effects = <<>>
    /\ bf_accepts = 0
    /\ bf_read = <<>>
    /\ bf_failedMsgs = 0
    /\ bf_ioErrors = 0
    /\ bf_before = -1
    /\ status = "Inactive"
    /\ loops = <<>>
    /\ sent = <<>>
    /\ meril_service_handle = "None"
    /\ calls = <<>>
    /\ bf6900_service_handle = "None"
    /\ boot = NotBooted
    /\ lk = NoLockWaits
    /\ handled = NoEvents
    /\ his = NoDelivery
    /\ config = InitConfig

\* the result slot of the framing functions before any was applied
NoOutput == [arg |-> <<>>, found |-> FALSE, message_data |-> <<>>]

Init ==
    /\ InitServices
    /\ codec_text = <<>>
    /\ codec_op = "none"
    /\ codec_out = NoOutput

HasConn == AnalyzerId \in DOMAIN connections

Conn == connections[AnalyzerId]

NoByte == /\ lastState' = ""
          /\ lastByte' = -1

\* start(): bind the listener, set is_running, emit AnalyzerStatusUpdated,
\* spawn handle_connections_loop
Start ==
    /\ ~is_running
    /\ listener = "None"
    /\ is_running' = TRUE
    /\ listener' = "Some"
    /\ accept_loop' = "running"
    /\ effects' = <<Ev("AnalyzerStatusUpdated")>>
    /\ NoByte
    /\ status' = "Active"
    /\ sent' = <<"Active">>
    /\ loops' = <<"check">>
    /\ config' = save_analyzer_to_store(config, "Active")
    /\ UNCHANGED <<connections, drivers, busy, pending, accepts, pubsInTx, eotInTx, laterTx,
                   badRun, naksInRun>>
    /\ UNCHANGED <<meril_service_handle, calls, bf6900_service_handle, boot, lk, his, handled>>
    /\ UNCHANGED <<hl7Vars, codecVars>>

\* handle_connections_loop, Ok(Ok((stream, addr))): insert a fresh Connection
\* under analyzer_id, send AnalyzerConnected, spawn handle_connection
Accept ==
    /\ accept_loop = "running"
    /\ is_running
    /\ listener = "Some"
    /\ ~busy
    /\ accepts < MaxAccepts
    /\ connections' = [k \in {AnalyzerId} |-> NewConnection]
    /\ drivers' = drivers + 1
    /\ accepts' = accepts + 1
    /\ effects' = <<Ev("AnalyzerConnected")>>
    /\ pubsInTx' = 0
    /\ eotInTx' = FALSE
    /\ laterTx' = FALSE
    /\ badRun' = 0
    /\ naksInRun' = 0
    /\ NoByte
    /\ UNCHANGED <<is_running, listener, accept_loop, busy, pending>>
    /\ UNCHANGED <<hl7Vars, codecVars, lifeVars, his, config>>

\* handle_connection, Ok(Ok(n)): a chunk was read under the write lock
DriverRead ==
    /\ drivers > 0
    /\ ~busy
    /\ HasConn
    /\ \E chunk \in ClientChunks(Conn) :
         /\ pending' = chunk
         /\ IF chunk = MalformedFrame /\ (Conn.state = "WaitingForFrame" \/ badRun > 0)
            THEN /\ badRun < MalformedRun
                 /\ badRun' = badRun + 1
                 /\ naksInRun' = naksInRun
            ELSE /\ badRun' = 0
                 /\ naksInRun' = 0
    /\ busy' = TRUE
    /\ effects' = <<>>
    /\ NoByte
    /\ UNCHANGED <<is_running, listener, accept_loop, connections, drivers, accepts,
                   pubsInTx, eotInTx, laterTx>>
    /\ UNCHANGED <<hl7Vars, codecVars, lifeVars, his, config>>

CountOf(eff, e) == Cardinality({i \in 1..Len(eff) : eff[i] = e})

CountEvents(eff, n) ==
    Cardinality({i \in 1..Len(eff) : eff[i].kind = "event" /\ eff[i].name = n})

\* handle_connection: one byte of the chunk goes through process_astm_data;
\* on Err the Error event is sent and the loop goes back to the read
ProcessByte ==
    /\ busy
    /\ pending # <<>>
    /\ \E r \in {process_astm_byte(Conn, Head(pending))} :
       LET byte == Head(pending)
           enq == Conn.state = "WaitingForEnq" /\ byte = ASTM_ENQ
           eff == IF r.out = "err" THEN r.eff \o <<Ev("Error")>> ELSE r.eff
       IN  /\ connections' = [connections EXCEPT ![AnalyzerId] = r.conn]
           /\ pending' = IF r.out = "next" THEN Tail(pending) ELSE <<>>
           /\ busy' = (r.out = "next" /\ Tail(pending) # <<>>)
           /\ drivers' = IF r.out = "panic" THEN drivers - 1 ELSE drivers
           /\ effects' = eff
           /\ lastState' = Conn.state
           /\ lastByte' = byte
           /\ pubsInTx' = IF enq THEN 0 ELSE pubsInTx + CountEvents(eff, "LabResultProcessed")
           /\ eotInTx' = IF enq THEN FALSE ELSE (eotInTx \/ byte = ASTM_EOT)
           /\ laterTx' = IF enq THEN pubsInTx > 0 ELSE laterTx
           /\ naksInRun' = IF badRun > 0 THEN naksInRun + CountOf(eff, Wr(ASTM_NAK))
                           ELSE naksInRun
    /\ UNCHANGED <<is_running, listener, accept_loop, accepts, badRun>>
    /\ UNCHANGED <<hl7Vars, codecVars, lifeVars, his, config>>

\* a driver whose exit also ends the accept loop
DriverReadClosed_StopsLoop ==
    /\ drivers > 0
    /\ ~busy
    /\ HasConn
    /\ connections' = NoConnections
    /\ drivers' = drivers - 1
    /\ accept_loop' = "exited"
    /\ effects' = <<Ev("AnalyzerDisconnected")>>
    /\ badRun' = 0
    /\ naksInRun' = 0
    /\ NoByte
    /\ UNCHANGED <<is_running, listener, busy, pending, accepts, pubsInTx, eotInTx, laterTx>>
    /\ UNCHANGED <<hl7Vars, codecVars, lifeVars, his, config>>

\* handle_connection, Ok(Ok(0)) or Ok(Err(e)): leave the loop, remove the
\* map entry, send AnalyzerDisconnected
DriverReadClosed ==
    /\ drivers > 0
    /\ ~busy
    /\ HasConn
    /\ connections' = NoConnections
    /\ drivers' = drivers - 1
    /\ effects' = <<Ev("AnalyzerDisconnected")>>
    /\ badRun' = 0
    /\ naksInRun' = 0
    /\ NoByte
    /\ UNCHANGED <<is_running, listener, accept_loop, busy, pending, accepts,
                   pubsInTx, eotInTx, laterTx>>
    /\ UNCHANGED <<hl7Vars, codecVars, lifeVars, his, config>>

\* handle_connection, get_mut returned None: leave the loop, send
\* AnalyzerDisconnected
DriverConnectionGone ==
    /\ drivers > 0
    /\ ~busy
    /\ ~HasConn
    /\ connections' = NoConnections
    /\ drivers' = drivers - 1
    /\ effects' = <<Ev("AnalyzerDisconnected")>>
    /\ NoByte
    /\ UNCHANGED <<is_running, listener, accept_loop, busy, pending, accepts,
                   pubsInTx, eotInTx, laterTx, badRun, naksInRun>>
    /\ UNCHANGED <<hl7Vars, codecVars, lifeVars, his, config>>

\* handle_connection, Err(_) of the 5 s timeout around read: `continue`,
\* the loop is entered again with the Connection as it was
DriverReadTimeout ==
    /\ drivers > 0
    /\ ~busy
    /\ HasConn
    /\ effects' = <<>>
    /\ lastState' = ""
    /\ lastByte' = -2
    /\ UNCHANGED <<is_running, listener, accept_loop, connections, drivers, busy, pending,
                   accepts, pubsInTx, eotInTx, laterTx, badRun, naksInRun>>
    /\ UNCHANGED <<hl7Vars, codecVars, lifeVars, his, config>>

Next ==
    \/ Start
    \/ Accept
    \/ DriverRead
    \/ DriverReadTimeout
    \/ ProcessByte
    \/ DriverReadClosed
    \/ DriverConnectionGone

Spec == Init /\ [][Next]_vars

\* ------------------------------------------------------------------------
\* BF6900Service and its tasks
\* ------------------------------------------------------------------------
HasHL7Conn == Bf6900Id \in DOMAIN bf_connections

HL7Conn == bf_connections[Bf6900Id]

\* BF6900Service::start(): bind the listener, set is_running, emit
\* AnalyzerStatusUpdated, spawn handle_connections_loop
StartBF6900 ==
    /\ ~bf_is_running
    /\ bf_is_running' = TRUE
    /\ bf_effects' = <<Ev("AnalyzerStatusUpdated")>>
    /\ bf_before' = -1
    /\ config' = save_bf6900_analyzer_to_store(config, "Active")
    /\ UNCHANGED <<bf_connections, bf_drivers, bf_accepts, bf_read, bf_failedMsgs, bf_ioErrors>>
    /\ UNCHANGED <<astmVars, codecVars, lifeVars, his>>

\* handle_connections_loop, Ok(Ok((stream, addr))): insert a fresh
\* HL7Connection under analyzer_id, send AnalyzerConnected, spawn
\* handle_connection
AcceptHL7 ==
    /\ bf_is_running
    /\ bf_accepts < MaxAccepts
    /\ bf_connections' = [k \in {Bf6900Id} |-> NewHL7Connection]
    /\ bf_drivers' = bf_drivers + 1
    /\ bf_accepts' = bf_accepts + 1
    /\ bf_effects' = <<Ev("AnalyzerConnected")>>
    /\ bf_read' = <<>>
    /\ bf_failedMsgs' = 0
    /\ bf_ioErrors' = 0
    /\ bf_before' = -1
    /\ UNCHANGED bf_is_running
    /\ UNCHANGED <<astmVars, codecVars, lifeVars, his, config>>

IsHematology(e) == e.kind = "event" /\ e.name = "HematologyResultProcessed"

IsReceived(e) == e.kind = "event" /\ e.name = "HL7MessageReceived"

\* the MLLP messages that can be taken off the front of a buffer, in order
RECURSIVE FrameList(_)
FrameList(buffer) ==
    LET ex == extract_complete_mllp_message(buffer)
    IN  IF ex.found THEN <<ex.message_data>> \o FrameList(ex.buffer) ELSE <<>>

\* the message as the driver parses it
ParsedOf(m) == parse_hl7_message(from_utf8_lossy(m))

Panics(m) == ParsedOf(m).res = "panic"

\* frame i of the read is reached: no frame before it ends the driver task
Reached(ms, i) == \A j \in 1..(i - 1) : ~Panics(ms[j])

\* the positions in eff where the handling of a frame begins
Starts(eff) == {j \in 1..Len(eff) : IsReceived(eff[j])}

\* the message parses and passes validate_hl7_message_content
Accepted(m) == ParsedOf(m).res = "ok" /\ validate_hl7_message_content(ParsedOf(m).msg)

\* history bookkeeping: the tallies after the first k frames of ms were
\* answered; an accepted message clears them, a message that fails to parse
\* or validate counts as failed
RECURSIVE Tally(_, _, _)
Tally(ms, k, c) ==
    IF k = 0 THEN c
    ELSE IF Accepted(ms[k]) THEN [failed |-> 0, io |-> 0]
    ELSE IF Panics(ms[k]) THEN Tally(ms, k - 1, c)
    ELSE [Tally(ms, k - 1, c) EXCEPT !.failed = @ + 1]

\* history bookkeeping for one read with result r: when the call returned
\* Err, the response to the last frame taken was not written
TallyRead(ms, r, c) ==
    LET k == Cardinality(Starts(r.eff))
        base == Tally(ms, k - 1, c)
    IN  IF r.out # "err" THEN Tally(ms, k, c)
        ELSE [failed |-> IF Accepted(ms[k]) THEN base.failed ELSE base.failed + 1,
              io |-> base.io + 1]

\* which response write of a read fails: none (0), or one of the responses
\* the read gives rise to, while the socket has failed fewer than
\* MaxIoErrors times
FailChoices(buffer) ==
    IF bf_ioErrors >= MaxIoErrors THEN {0}
    ELSE {n \in 0..MaxFailAt : n <= Len(FrameList(buffer))}

\* handle_connection, Ok(Ok(n)): health update, then process_hl7_data on the
\* chunk.  A panic inside it ends the driver task and leaves the map entry.
\* On Err the retry count goes up once more, the Error event is sent and,
\* with retry_count > 5, the loop is left: the map entry is removed and
\* AnalyzerDisconnected is sent.
ReadHL7 ==
    /\ bf_drivers > 0
    /\ HasHL7Conn
    /\ HL7Conn.retry_count < MaxRetries
    /\ \E chunk \in HL7Chunks(HL7Conn) :
       \E failAt \in FailChoices(HL7Conn.message_buffer \o chunk) :
       \E r \in {process_hl7_data(update_connection_health(HL7Conn), chunk, failAt)} :
       \E failed \in {handle_hl7_processing_error(r.conn)} :
         /\ bf_read' = HL7Conn.message_buffer \o chunk
         /\ bf_before' = HL7Conn.retry_count
         /\ \E c \in {TallyRead(FrameList(HL7Conn.message_buffer \o chunk), r,
                                 [failed |-> bf_failedMsgs, io |-> bf_ioErrors])} :
               /\ bf_failedMsgs' = c.failed
               /\ bf_ioErrors' = c.io
         /\ CASE r.out = "panic" ->
                    /\ bf_connections' = [bf_connections EXCEPT ![Bf6900Id] = r.conn]
                    /\ bf_effects' = r.eff
                    /\ bf_drivers' = bf_drivers - 1
              [] r.out = "err" /\ failed.retry_count > 5 ->
                    /\ bf_connections' = NoHL7Connections
                    /\ bf_effects' = r.eff \o <<Ev("Error"), Ev("AnalyzerDisconnected")>>
                    /\ bf_drivers' = bf_drivers - 1
              [] r.out = "err" /\ failed.retry_count <= 5 ->
                    /\ bf_connections' = [bf_connections EXCEPT ![Bf6900Id] = failed]
                    /\ bf_effects' = r.eff \o <<Ev("Error")>>
                    /\ bf_drivers' = bf_drivers
              [] OTHER ->
                    /\ bf_connections' = [bf_connections EXCEPT ![Bf6900Id] = r.conn]
                    /\ bf_effects' = r.eff
                    /\ bf_drivers' = bf_drivers
    /\ UNCHANGED <<bf_is_running, bf_accepts>>
    /\ UNCHANGED <<astmVars, codecVars, lifeVars, his, config>>

\* handle_connection, Ok(Ok(0)) or Ok(Err(e)): leave the loop, remove the
\* map entry, send AnalyzerDisconnected
HL7ReadClosed ==
    /\ bf_drivers > 0
    /\ HasHL7Conn
    /\ bf_connections' = NoHL7Connections
    /\ bf_drivers' = bf_drivers - 1
    /\ bf_effects' = <<Ev("AnalyzerDisconnected")>>
    /\ bf_read' = <<>>
    /\ bf_failedMsgs' = 0
    /\ bf_ioErrors' = 0
    /\ bf_before' = -1
    /\ UNCHANGED <<bf_is_running, bf_accepts>>
    /\ UNCHANGED <<astmVars, codecVars, lifeVars, his, config>>

\* handle_connection, get_mut returned None: leave the loop, send
\* AnalyzerDisconnected
HL7ConnectionGone ==
    /\ bf_drivers > 0
    /\ ~HasHL7Conn
    /\ bf_connections' = NoHL7Connections
    /\ bf_drivers' = bf_drivers - 1
    /\ bf_effects' = <<Ev("AnalyzerDisconnected")>>
    /\ bf_read' = <<>>
    /\ bf_failedMsgs' = 0
    /\ bf_ioErrors' = 0
    /\ bf_before' = -1
    /\ UNCHANGED <<bf_is_running, bf_accepts>>
    /\ UNCHANGED <<astmVars, codecVars, lifeVars, his, config>>

\* a read timeout that leaves the loop: the map entry is removed and
\* AnalyzerDisconnected is sent
HL7ReadTimeout_EndsSession ==
    /\ bf_drivers > 0
    /\ HasHL7Conn
    /\ bf_connections' = NoHL7Connections
    /\ bf_drivers' = bf_drivers - 1
    /\ bf_effects' = <<Ev("AnalyzerDisconnected")>>
    /\ bf_read' = <<>>
    /\ bf_before' = -2
    /\ UNCHANGED <<bf_is_running, bf_accepts, bf_failedMsgs, bf_ioErrors>>
    /\ UNCHANGED <<astmVars, codecVars, lifeVars, his, config>>

\* handle_connection, Err(_) of the timeout around read (10 s, 5 s or 2 s by
\* health): last_activity and the health were updated before the read;
\* `continue`, the loop is entered again
HL7ReadTimeout ==
    /\ bf_drivers > 0
    /\ HasHL7Conn
    /\ bf_connections' = [bf_connections EXCEPT
                             ![Bf6900Id] = update_connection_health(HL7Conn)]
    /\ bf_effects' = <<>>
    /\ bf_read' = <<>>
    /\ bf_before' = -2
    /\ UNCHANGED <<bf_is_running, bf_drivers, bf_accepts, bf_failedMsgs, bf_ioErrors>>
    /\ UNCHANGED <<astmVars, codecVars, lifeVars, his, config>>

NextHL7 ==
    \/ StartBF6900
    \/ AcceptHL7
    \/ ReadHL7
    \/ HL7ReadTimeout
    \/ HL7ReadClosed
    \/ HL7ConnectionGone

SpecHL7 == Init /\ [][NextHL7]_vars

\* ------------------------------------------------------------------------
\* protocol/astm/mod.rs: Frame { sequence, content, is_last_frame } and its
\* codec
\* ------------------------------------------------------------------------
\* Frame::calculate_checksum: the sum of the bytes as u16, then its low byte
\* (the u16 sum cannot overflow below 258 bytes)
calculate_checksum(data) == LET sum == SumWide(data) IN (sum % 65536) % 256

\* one digit of format!("{:02X}", ..)
HexChar(d) == IF d < 10 THEN 48 + d ELSE 55 + d

\* char::to_digit(16) on one byte, -1 for no digit
HexValue(c) ==
    IF c \in 48..57 THEN c - 48
    ELSE IF c \in 65..70 THEN c - 55
    ELSE IF c \in 97..102 THEN c - 87
    ELSE -1

\* Frame::parse_checksum: from_utf8, then u8::from_str_radix(_, 16) on two
\* bytes: two hex digits, or '+' and one hex digit
parse_checksum(checksum_bytes) ==
    IF Len(checksum_bytes) < 2 THEN [ok |-> FALSE, value |-> 0]
    ELSE IF HexValue(checksum_bytes[1]) >= 0 /\ HexValue(checksum_bytes[2]) >= 0
    THEN [ok |-> TRUE, value |-> 16 * HexValue(checksum_bytes[1]) + HexValue(checksum_bytes[2])]
    ELSE IF checksum_bytes[1] = 43 /\ HexValue(checksum_bytes[2]) >= 0
    THEN [ok |-> TRUE, value |-> HexValue(checksum_bytes[2])]
    ELSE [ok |-> FALSE, value |-> 0]

\* variant: the checksum leaves out the ETX/ETB byte
Frame_encode_ChecksumSkipsTerminator(f) ==
    LET body == <<(f.sequence + Ch0) % 256>> \o f.content
        checksum == calculate_checksum(body)
    IN  <<ASTM_STX>> \o body \o <<IF f.is_last_frame THEN ASTM_ETX ELSE ASTM_ETB>>
        \o <<HexChar(checksum \div 16), HexChar(checksum % 16)>>
        \o <<ASTM_CR, ASTM_LF>>

\* Frame::encode: STX, sequence + '0', content, ETX or ETB, the checksum of
\* all after STX as two upper-case hex digits, CR, LF
Frame_encode(f) ==
    LET body == <<(f.sequence + Ch0) % 256>> \o f.content
                \o <<IF f.is_last_frame THEN ASTM_ETX ELSE ASTM_ETB>>
        checksum == calculate_checksum(body)
    IN  <<ASTM_STX>> \o body
        \o <<HexChar(checksum \div 16), HexChar(checksum % 16)>>
        \o <<ASTM_CR, ASTM_LF>>

NoFrame == [sequence |-> 0, content |-> <<>>, is_last_frame |-> FALSE]

\* Frame::parse: Err below 7 bytes, without STX first, without ETX/ETB, with
\* a sequence byte below '0', with fewer than two bytes after the first
\* ETX/ETB, or with a checksum that does not parse or does not match
Frame_parse(data) ==
    LET ends == {i \in 1..Len(data) : data[i] = ASTM_ETX \/ data[i] = ASTM_ETB}
        end_position == CHOOSE e \in ends : \A o \in ends : e <= o
        expected == parse_checksum(SubSeq(data, end_position + 1, end_position + 2))
        calculated == calculate_checksum(SubSeq(data, 2, end_position))
    IN  IF Len(data) < 7 \/ data[1] # ASTM_STX \/ ends = {} THEN [ok |-> FALSE, frame |-> NoFrame]
        ELSE IF data[2] < Ch0 \/ Len(data) < end_position + 2
        THEN [ok |-> FALSE, frame |-> NoFrame]
        ELSE IF ~expected.ok \/ expected.value # calculated
        THEN [ok |-> FALSE, frame |-> NoFrame]
        ELSE [ok |-> TRUE,
              frame |-> [sequence |-> data[2] - Ch0,
                         content |-> SubSeq(data, 3, end_position - 1),
                         is_last_frame |-> data[end_position] = ASTM_ETX]]

\* ------------------------------------------------------------------------
\* The framing functions on their own: applied to every byte string over
\* FramingBytes up to MaxText bytes
\* ------------------------------------------------------------------------
\* VT, FS, CR and 'A'
FramingBytes == {MLLP_START_BLOCK, MLLP_END_BLOCK, MLLP_CARRIAGE_RETURN, 65}

Texts == UNION {[1..n -> FramingBytes] : n \in 0..MaxText}

\* ETX, ETB, 'R' and '|'
ContentBytes == {ASTM_ETX, ASTM_ETB, ChR, ChBar}

Contents == UNION {[1..n -> ContentBytes] : n \in 0..MaxContent}

\* the substrings get_machine_name_for_analyzer looks for
Known ==
    [bf6900 |-> <<98, 102, 54, 57, 48, 48>>,
     hematology |-> <<104, 101, 109, 97, 116, 111, 108, 111, 103, 121>>,
     autoquant |-> <<97, 117, 116, 111, 113, 117, 97, 110, 116>>,
     meril |-> <<109, 101, 114, 105, 108>>]

\* str::contains
contains(haystack, needle) ==
    \E i \in 0..(Len(haystack) - Len(needle)) :
        SubSeq(haystack, i + 1, i + Len(needle)) = needle

\* get_machine_name_for_analyzer
get_machine_name_for_analyzer(analyzer_id) ==
    IF contains(analyzer_id, Known.bf6900) \/ contains(analyzer_id, Known.hematology)
    THEN "Meril CQ 5 Plus"
    ELSE IF contains(analyzer_id, Known.autoquant) \/ contains(analyzer_id, Known.meril)
    THEN "Meril-3.6-11052213"
    ELSE "Unknown-Analyzer"

\* upper-case letters for the lower-case ones from position `from` on
Upper(text, from) ==
    [i \in 1..Len(text) |->
        IF i >= from /\ text[i] >= 97 /\ text[i] <= 122 THEN text[i] - 32 ELSE text[i]]

\* analyzer ids: the known substrings in lower case, in upper case and
\* capitalized, alone, with a suffix "-1" and one after the other, and ids
\* with none of them ("", "-1", "lab")
AnalyzerIds ==
    LET known == {Known[k] : k \in DOMAIN Known}
        cased == UNION {{w, Upper(w, 1), Upper(w, 2)} : w \in known}
    IN  cased
        \cup {w \o <<45, 49>> : w \in cased}
        \cup {Known.meril \o w : w \in {Known.bf6900, Upper(Known.bf6900, 1)}}
        \cup {<<>>, <<45, 49>>, <<108, 97, 98>>}

InitCodec ==
    /\ InitServices
    /\ codec_text \in Texts \cup Contents \cup AnalyzerIds
    /\ codec_op = "none"
    /\ codec_out = NoOutput

\* extract_complete_mllp_message(&mut connection.message_buffer), called
\* again and again on the same buffer as the loop of process_hl7_data does
ExtractFromBuffer ==
    /\ \E r \in {extract_complete_mllp_message(codec_text)} :
          /\ codec_out' = [arg |-> codec_text, found |-> r.found,
                           message_data |-> r.message_data]
          /\ codec_text' = r.buffer
    /\ codec_op' = "extract"
    /\ UNCHANGED <<astmVars, hl7Vars, lifeVars, his, config>>

\* extract_mllp_message(&create_mllp_frame(text))
WrapAndExtract ==
    /\ \E r \in {extract_mllp_message(create_mllp_frame(codec_text))} :
          codec_out' = [arg |-> codec_text, found |-> r.ok,
                        message_data |-> r.message_content]
    /\ codec_op' = "roundtrip"
    /\ UNCHANGED <<codec_text, astmVars, hl7Vars, lifeVars, his, config>>

\* Frame::parse(&Frame::new(sequence, content, is_last_frame).encode())
EncodeAndParse ==
    /\ Len(codec_text) <= MaxContent
    /\ \E sequence \in 0..7, is_last_frame \in BOOLEAN :
       \E f \in {[sequence |-> sequence, content |-> codec_text,
                   is_last_frame |-> is_last_frame]} :
       \E r \in {Frame_parse(Frame_encode(f))} :
          codec_out' = [arg |-> f, found |-> r.ok, message_data |-> r.frame]
    /\ codec_op' = "frame"
    /\ UNCHANGED <<codec_text, astmVars, hl7Vars, lifeVars, his, config>>

\* get_machine_name_for_analyzer(analyzer_id)
MapMachineName ==
    /\ codec_out' = [arg |-> codec_text, found |-> TRUE,
                     message_data |-> get_machine_name_for_analyzer(codec_text)]
    /\ codec_op' = "machine"
    /\ UNCHANGED <<codec_text, astmVars, hl7Vars, lifeVars, his, config>>

NextCodec ==
    \/ MapMachineName
    \/ ExtractFromBuffer
    \/ WrapAndExtract
    \/ EncodeAndParse

SpecCodec == InitCodec /\ [][NextCodec]_vars

\* ------------------------------------------------------------------------
\* Service lifecycle: start and stop requests against the accept loops
\* ------------------------------------------------------------------------
\* live handle_connections_loop tasks up to which start() is followed
MaxLoops == 3

\* the fields of AutoQuantMerilService that start() and stop() work on
\* (BF6900Service has the same fields and the same start(), stop() and loop)
Service ==
    [is_running |-> is_running, listener |-> listener, status |-> status,
     loops |-> loops, connections |-> connections]

\* TcpListener::bind(0.0.0.0:port): fails when another program holds the
\* port, and when the listener of an earlier start() is still bound to it
bind(service, port_free) == port_free /\ service.listener = "None"

\* start() with the status set before the listener is bound
start_ActiveBeforeBind(service, port_free) ==
    IF ~bind(service, port_free)
    THEN [service |-> [service EXCEPT !.status = "Active"],
          result |-> "FailedToBind", sent |-> <<>>, saved |-> FALSE]
    ELSE [service |-> [service EXCEPT !.listener = "Some", !.is_running = TRUE,
                                      !.status = "Active",
                                      !.loops = Append(@, "check")],
          result |-> "Ok", sent |-> <<"Active">>, saved |-> TRUE]

\* start(): bind (an error returns at once), store the listener, set
\* is_running, set the status to Active, save the analyzer to the store,
\* send AnalyzerStatusUpdated(Active), spawn handle_connections_loop. It does not look at is_running.
start(service, port_free) ==
    IF ~bind(service, port_free)
    THEN [service |-> service, result |-> "FailedToBind", sent |-> <<>>, saved |-> FALSE]
    ELSE [service |-> [service EXCEPT !.listener = "Some", !.is_running = TRUE,
                                      !.status = "Active",
                                      !.loops = Append(@, "check")],
          result |-> "Ok", sent |-> <<"Active">>, saved |-> TRUE]

\* stop(): clear is_running, shut down and drop the connections, drop the
\* listener, set the status to Inactive, save the analyzer to the store,
\* send AnalyzerStatusUpdated(Inactive).
\* It does not look at is_running and returns Ok(()).
stop(service) ==
    [service |-> [service EXCEPT !.is_running = FALSE, !.connections = NoConnections,
                                 !.listener = "None", !.status = "Inactive"],
     result |-> "Ok", sent |-> <<"Inactive">>, saved |-> TRUE]

\* the listener mutex is free: no loop is inside accept(), or past it with a
\* socket to insert, with the guard held
LockFree == \A i \in DOMAIN loops : loops[i] \notin {"accept", "insert"}

RemoveAt(s, i) == SubSeq(s, 1, i - 1) \o SubSeq(s, i + 1, Len(s))

\* a request returned: its kind, is_running when it was made, what it
\* returned, and whether it changed the service
Returned(op, result) ==
    LET c == [op |-> op, running |-> is_running, result |-> result,
              changed |-> <<is_running', listener', status', loops', connections'>>
                          # <<is_running, listener, status, loops, connections>>]
    IN  calls' = IF Len(calls) < 2 THEN Append(calls, c) ELSE <<calls[2], c>>

SetService(service) ==
    /\ is_running' = service.is_running
    /\ listener' = service.listener
    /\ status' = service.status
    /\ loops' = service.loops
    /\ connections' = service.connections

\* the store after start() or stop() returned r
Saved(r) ==
    config' = IF r.saved THEN save_analyzer_to_store(config, r.service.status) ELSE config

SessionsUntouched ==
    /\ UNCHANGED <<accept_loop, drivers, busy, pending, effects, accepts, lastState,
                   lastByte, pubsInTx, eotInTx, laterTx, badRun, naksInRun>>
    /\ UNCHANGED <<hl7Vars, codecVars, bf6900_service_handle, boot, lk, his, handled>>

\* start_meril_service_internal() and start_bf6900_service_internal() on a
\* stored handle: an error when one is stored, else a task is spawned
start_service_internal(handle) ==
    IF handle # "None" THEN [handle |-> handle, result |-> "AlreadyRunning"]
                       ELSE [handle |-> "Spawned", result |-> "Ok"]

\* initialize() that starts the BF-6900 service only when the Meril service
\* was not to be started
initialize_OneServiceOnly(meril_handle, bf6900_handle, meril_on, bf6900_on) ==
    IF meril_on
    THEN [meril_handle |-> start_service_internal(meril_handle).handle,
          bf6900_handle |-> bf6900_handle,
          meril_started |-> TRUE, bf6900_started |-> FALSE,
          result |-> start_service_internal(meril_handle).result]
    ELSE [meril_handle |-> meril_handle,
          bf6900_handle |-> IF bf6900_on
                            THEN start_service_internal(bf6900_handle).handle
                            ELSE bf6900_handle,
          meril_started |-> FALSE, bf6900_started |-> bf6900_on,
          result |-> IF bf6900_on THEN start_service_internal(bf6900_handle).result
                                  ELSE "Ok"]

\* initialize(): for the Meril service, then for the BF-6900 service, call
\* start_*_service_internal when activate_on_start is set; an error of the
\* first call returns at once
initialize(meril_handle, bf6900_handle, meril_on, bf6900_on) ==
    LET m == start_service_internal(meril_handle)
        b == start_service_internal(bf6900_handle)
    IN  IF meril_on /\ m.result # "Ok"
        THEN [meril_handle |-> meril_handle, bf6900_handle |-> bf6900_handle,
              meril_started |-> FALSE, bf6900_started |-> FALSE, result |-> m.result]
        ELSE [meril_handle |-> IF meril_on THEN m.handle ELSE meril_handle,
              bf6900_handle |-> IF bf6900_on /\ b.result = "Ok" THEN b.handle
                                ELSE bf6900_handle,
              meril_started |-> meril_on,
              bf6900_started |-> bf6900_on /\ b.result = "Ok",
              result |-> IF bf6900_on THEN b.result ELSE "Ok"]

\* the supervisor is initialized once, after its creation and before any
\* request, with the activate_on_start of the two stored configurations
Boot ==
    /\ ~boot.done
    /\ calls = <<>>
    /\ \E meril_on \in BOOLEAN, bf6900_on \in BOOLEAN :
         \E r \in {initialize(meril_service_handle, bf6900_service_handle,
                              meril_on, bf6900_on)} :
            /\ meril_service_handle' = r.meril_handle
            /\ bf6900_service_handle' = r.bf6900_handle
            /\ boot' = [done |-> TRUE, meril |-> meril_on, bf6900 |-> bf6900_on,
                        meril_started |-> r.meril_started,
                        bf6900_started |-> r.bf6900_started, result |-> r.result]
    /\ sent' = <<>>
    /\ UNCHANGED <<is_running, listener, status, loops, connections, calls>>
    /\ UNCHANGED <<accept_loop, drivers, busy, pending, effects, accepts, lastState,
                   lastByte, pubsInTx, eotInTx, laterTx, badRun, naksInRun>>
    /\ UNCHANGED <<hl7Vars, codecVars, his, config, lk, handled>>

\* the task spawned by start_bf6900_service_internal runs BF6900Service
\* start(): bind, set is_running, send AnalyzerStatusUpdated, spawn the loop
SpawnedStartBF6900 ==
    /\ bf6900_service_handle = "Spawned"
    /\ \E port_free \in BOOLEAN :
         IF port_free /\ ~bf_is_running
         THEN /\ bf_is_running' = TRUE
              /\ bf_effects' = <<Ev("AnalyzerStatusUpdated")>>
              /\ bf6900_service_handle' = "Ok"
              /\ config' = save_bf6900_analyzer_to_store(config, "Active")
         ELSE /\ bf6900_service_handle' = "FailedToBind"
              /\ UNCHANGED <<bf_is_running, bf_effects, config>>
    /\ UNCHANGED <<bf_connections, bf_drivers, bf_accepts, bf_read, bf_failedMsgs,
                   bf_ioErrors, bf_before>>
    /\ UNCHANGED <<astmVars, codecVars, status, loops, sent, meril_service_handle,
                   calls, boot, lk, his, handled>>

\* the start_meril_service command: service.start() on the shared service
start_meril_service ==
    /\ \E port_free \in BOOLEAN :
         \E r \in {start(Service, port_free)} :
            /\ r.result = "Ok" => Len(loops) < MaxLoops
            /\ SetService(r.service)
            /\ Saved(r)
            /\ sent' = r.sent
            /\ Returned("start", r.result)
    /\ UNCHANGED meril_service_handle
    /\ SessionsUntouched

\* a stop() that also ends the delivery task in progress
stop_meril_service_CancelsDelivery ==
    /\ LockFree
    /\ \E r \in {stop(Service)} :
          /\ SetService(r.service)
          /\ Saved(r)
          /\ sent' = r.sent
          /\ Returned("stop", r.result)
    /\ his' = IF his.pc \in {"post", "sleep"}
              THEN [his EXCEPT !.pc = "done", !.result = "Cancelled"] ELSE his
    /\ UNCHANGED <<meril_service_handle, bf6900_service_handle, boot, lk, handled>>
    /\ UNCHANGED <<accept_loop, drivers, busy, pending, effects, accepts, lastState,
                   lastByte, pubsInTx, eotInTx, laterTx, badRun, naksInRun>>
    /\ UNCHANGED <<hl7Vars, codecVars>>

\* the stop_meril_service command: service.stop() on the shared service
stop_meril_service ==
    /\ LockFree
    /\ \E r \in {stop(Service)} :
          /\ SetService(r.service)
          /\ Saved(r)
          /\ sent' = r.sent
          /\ Returned("stop", r.result)
    /\ UNCHANGED meril_service_handle
    /\ SessionsUntouched

\* start_meril_service_internal(): an error when a handle is stored, else
\* spawn a task that will call service.start() and store its handle
start_meril_service_internal ==
    /\ UNCHANGED <<is_running, listener, status, loops, connections, config>>
    /\ IF meril_service_handle # "None"
       THEN /\ Returned("start_internal", "AlreadyRunning")
            /\ UNCHANGED meril_service_handle
       ELSE /\ Returned("start_internal", "Ok")
            /\ meril_service_handle' = "Spawned"
    /\ sent' = <<>>
    /\ SessionsUntouched

\* the task spawned by start_meril_service_internal runs service.start();
\* its result stays in the handle
SpawnedStart ==
    /\ meril_service_handle = "Spawned"
    /\ \E port_free \in BOOLEAN :
         \E r \in {start(Service, port_free)} :
            /\ r.result = "Ok" => Len(loops) < MaxLoops
            /\ SetService(r.service)
            /\ Saved(r)
            /\ sent' = r.sent
            /\ meril_service_handle' = r.result
            /\ Returned("start", r.result)
    /\ SessionsUntouched

\* stop_meril_service_internal() that keeps the handle of a task that
\* returned an error
stop_meril_service_internal_KeepsFailedHandle ==
    /\ IF meril_service_handle = "None"
       THEN /\ UNCHANGED <<is_running, listener, status, loops, connections,
                           meril_service_handle, config>>
            /\ Returned("stop_internal", "NotRunning")
            /\ sent' = <<>>
       ELSE /\ LockFree
            /\ meril_service_handle' = IF meril_service_handle = "FailedToBind"
                                       THEN meril_service_handle ELSE "None"
            /\ \E s \in {stop(Service)} :
                 IF meril_service_handle = "Spawned"
                 THEN \E port_free \in BOOLEAN :
                        \E r \in {start(s.service, port_free)} :
                           /\ r.result = "Ok" => Len(loops) < MaxLoops
                           /\ SetService(r.service)
                           /\ config' = save_analyzer_to_store(config, r.service.status)
                           /\ sent' = s.sent \o r.sent
                           /\ Returned("stop_internal", r.result)
                 ELSE /\ SetService(s.service)
                      /\ Saved(s)
                      /\ sent' = s.sent
                      /\ Returned("stop_internal", meril_service_handle)
    /\ SessionsUntouched

\* stop_meril_service_internal(): an error when no handle is stored, else
\* service.stop(), then await the handle (a task still to run runs now),
\* clear the handle and return the result of the task
stop_meril_service_internal ==
    /\ IF meril_service_handle = "None"
       THEN /\ UNCHANGED <<is_running, listener, status, loops, connections,
                           meril_service_handle, config>>
            /\ Returned("stop_internal", "NotRunning")
            /\ sent' = <<>>
       ELSE /\ LockFree
            /\ meril_service_handle' = "None"
            /\ \E s \in {stop(Service)} :
                 IF meril_service_handle = "Spawned"
                 THEN \E port_free \in BOOLEAN :
                        \E r \in {start(s.service, port_free)} :
                           /\ r.result = "Ok" => Len(loops) < MaxLoops
                           /\ SetService(r.service)
                           /\ config' = save_analyzer_to_store(config, r.service.status)
                           /\ sent' = s.sent \o r.sent
                           /\ Returned("stop_internal", r.result)
                 ELSE /\ SetService(s.service)
                      /\ Saved(s)
                      /\ sent' = s.sent
                      /\ Returned("stop_internal", meril_service_handle)
    /\ SessionsUntouched

LoopStep ==
    /\ sent' = <<>>
    /\ UNCHANGED <<is_running, listener, status, meril_service_handle, calls>>
    /\ UNCHANGED <<accept_loop, busy, pending, lastState, lastByte, pubsInTx, eotInTx, laterTx,
                   badRun, naksInRun>>
    /\ UNCHANGED <<hl7Vars, codecVars, bf6900_service_handle, boot, lk, his, config, handled>>

\* handle_connections_loop, top of the loop: break when is_running is false
LoopCheck ==
    /\ \E i \in DOMAIN loops :
          /\ loops[i] = "check"
          /\ loops' = IF is_running THEN [loops EXCEPT ![i] = "lock"]
                                    ELSE RemoveAt(loops, i)
    /\ UNCHANGED <<connections, drivers, accepts, effects>>
    /\ LoopStep

\* handle_connections_loop, listener.lock(): break when no listener is
\* stored, else call accept() on the stored one with the guard held
LoopLock ==
    /\ LockFree
    /\ \E i \in DOMAIN loops :
          /\ loops[i] = "lock"
          /\ loops' = IF listener = "Some" THEN [loops EXCEPT ![i] = "accept"]
                                           ELSE RemoveAt(loops, i)
    /\ UNCHANGED <<connections, drivers, accepts, effects>>
    /\ LoopStep

\* handle_connections_loop, the match on accept(): a socket was accepted
\* (insert the Connection under analyzer_id, send AnalyzerConnected, spawn
\* handle_connection), or accept() timed out after a second or failed; the
\* guard is dropped and the loop starts over
LoopAccept ==
    /\ \E i \in DOMAIN loops :
          /\ loops[i] = "accept"
          /\ loops' = [loops EXCEPT ![i] = "check"]
    /\ \E accepted \in BOOLEAN :
          IF accepted
          THEN /\ accepts < MaxAccepts
               /\ connections' = [k \in {AnalyzerId} |-> NewConnection]
               /\ drivers' = drivers + 1
               /\ accepts' = accepts + 1
               /\ effects' = <<Ev("AnalyzerConnected")>>
          ELSE UNCHANGED <<connections, drivers, accepts, effects>>
    /\ LoopStep

NextLifecycle ==
    \/ Boot
    \/ SpawnedStartBF6900
    \/ start_meril_service
    \/ stop_meril_service
    \/ start_meril_service_internal
    \/ SpawnedStart
    \/ stop_meril_service_internal
    \/ LoopCheck
    \/ LoopLock
    \/ LoopAccept
    \/ DriverReadClosed
    \/ DriverConnectionGone

SpecLifecycle == Init /\ [][NextLifecycle]_vars

\* ------------------------------------------------------------------------
\* HisClient: delivery of one payload with retries
\* ------------------------------------------------------------------------
\* retry_attempts up to which a delivery is followed (the default is 3)
MaxAttempts == 3

\* the send() of reqwest returned an error: no response at all
TransportError == 0

\* what one POST can come back with
Responses == {TransportError, 200, 299, 300, 500}

\* the serialized HisApiPayload of a delivery, built once by its caller
Payloads == {"sample 1", "sample 2"}

\* send_request() that takes every status below 400 for a success
send_request_RedirectIsOk(response) ==
    IF response # TransportError /\ response \in 200..399 THEN "Ok" ELSE "Err"

\* send_request(): Err when send() fails, Ok when status().is_success(),
\* Err for every other status
send_request(response) ==
    IF response = TransportError THEN "Err"
    ELSE IF response \in 200..299 THEN "Ok"
    ELSE "Err"

\* handle_meril_events / handle_bf6900_events, results with test_results:
\* spawn a task that builds the payload and calls send_payload, whose loop
\* `for attempt in 0..retry_attempts` is not entered when retry_attempts is 0
Deliver ==
    /\ his.pc \in {"idle", "done"}
    /\ \E payload \in Payloads, retry_attempts \in 0..MaxAttempts :
          his' = [NoDelivery EXCEPT
                    !.pc = IF retry_attempts = 0 THEN "done" ELSE "post",
                    !.result = IF retry_attempts = 0 THEN "Err" ELSE "",
                    !.payload = payload,
                    !.retry_attempts = retry_attempts,
                    !.spawned_running = is_running]
    /\ UNCHANGED <<astmVars, hl7Vars, codecVars, lifeVars, config>>

\* send_payload, one pass of the loop: POST the payload; Ok returns Ok(());
\* Err sleeps when attempts are left and else falls out of the loop to the
\* final Err
HisPost ==
    /\ his.pc = "post"
    /\ \E response \in Responses :
         \E r \in {send_request(response)} :
            his' = [his EXCEPT
                      !.posts = Append(@, his.payload),
                      !.responses = Append(@, response),
                      !.outlived_stop = @ \/ (his.spawned_running /\ ~is_running),
                      !.attempt = IF r = "Err" /\ ~(his.attempt < his.retry_attempts - 1)
                                  THEN his.attempt + 1 ELSE @,
                      !.pc = IF r = "Ok" THEN "done"
                             ELSE IF his.attempt < his.retry_attempts - 1 THEN "sleep"
                             ELSE "done",
                      !.result = IF r = "Ok" THEN "Ok"
                                 ELSE IF his.attempt < his.retry_attempts - 1 THEN ""
                                 ELSE "Err"]
    /\ UNCHANGED <<astmVars, hl7Vars, codecVars, lifeVars, config>>

\* send_payload: tokio::time::sleep(retry_delay_seconds) is over, next attempt
HisSleep ==
    /\ his.pc = "sleep"
    /\ his' = [his EXCEPT !.pc = "post", !.attempt = @ + 1, !.sleeps = @ + 1]
    /\ UNCHANGED <<astmVars, hl7Vars, codecVars, lifeVars, config>>

NextHis ==
    \/ Deliver
    \/ HisPost
    \/ HisSleep

SpecHis == Init /\ [][NextHis]_vars

\* the delivery task next to the start and stop requests of the service
NextDelivery ==
    \/ start_meril_service
    \/ stop_meril_service
    \/ start_meril_service_internal
    \/ SpawnedStart
    \/ stop_meril_service_internal
    \/ Deliver
    \/ HisPost
    \/ HisSleep

SpecDelivery == Init /\ [][NextDelivery]_vars

\* ------------------------------------------------------------------------
\* Configuration commands: update_meril_config, update_bf6900_config
\* ------------------------------------------------------------------------
RECURSIVE Decimal(_)
\* the number a run of decimal digits stands for
Decimal(digits) ==
    IF digits = <<>> THEN 0
    ELSE 10 * Decimal(SubSeq(digits, 1, Len(digits) - 1)) + (digits[Len(digits)] - 48)

\* validate_ip_address: ip.parse::<IpAddr>().is_ok(), on texts without ':'
\* (the IPv4 grammar: four decimal octets of one to three digits, no leading
\* zero, at most 255, separated by '.')
validate_ip_address(ip) ==
    LET parts == SplitOn(ip, 46)
    IN  /\ Len(parts) = 4
        /\ \A k \in 1..4 :
              /\ Len(parts[k]) \in 1..3
              /\ \A i \in 1..Len(parts[k]) : parts[k][i] \in 48..57
              /\ Len(parts[k]) > 1 => parts[k][1] # 48
              /\ Decimal(parts[k]) <= 255

\* validate_port
validate_port(port) == port > 0

\* validate_meril_config: "Ok" or the error it returns
validate_meril_config(analyzer) ==
    IF analyzer.connection_type # "TcpIp"
    THEN "Meril AutoQuant only supports TCP/IP connections"
    ELSE IF analyzer.ip_address # None /\ ~validate_ip_address(analyzer.ip_address[1])
    THEN "Invalid IP address format"
    ELSE IF analyzer.port # None /\ ~validate_port(analyzer.port[1])
    THEN "Invalid port number"
    ELSE IF analyzer.external_ip # None /\ ~validate_ip_address(analyzer.external_ip[1])
    THEN "Invalid external IP address format"
    ELSE IF analyzer.external_port # None /\ ~validate_port(analyzer.external_port[1])
    THEN "Invalid external port number"
    ELSE IF analyzer.protocol # "Astm"
    THEN "Meril AutoQuant only supports ASTM protocol"
    ELSE "Ok"

\* validate_bf6900_config: "Ok" or the error it returns
validate_bf6900_config(analyzer) ==
    IF analyzer.connection_type # "TcpIp"
    THEN "BF-6900 only supports TCP/IP connections"
    ELSE IF analyzer.ip_address # None /\ ~validate_ip_address(analyzer.ip_address[1])
    THEN "Invalid IP address format"
    ELSE IF analyzer.port # None /\ ~validate_port(analyzer.port[1])
    THEN "Invalid port number"
    ELSE IF analyzer.protocol # "Hl7V24"
    THEN "BF-6900 only supports HL7 v2.4 protocol"
    ELSE "Ok"

\* validate_hl7_settings without the limit on retry_attempts
validate_hl7_settings_NoRetryLimit(settings) ==
    IF settings.timeout_ms = 0 \/ settings.timeout_ms > 300000
    THEN "Timeout must be between 1ms and 300000ms (5 minutes)"
    ELSE IF settings.encoding # "UTF-8" /\ settings.encoding # "ASCII"
    THEN "Encoding must be UTF-8 or ASCII"
    ELSE IF settings.supported_message_types = <<>>
    THEN "At least one supported message type is required"
    ELSE IF \E i \in DOMAIN settings.supported_message_types :
               ~contains(settings.supported_message_types[i], <<ChCaret>>)
    THEN "Invalid HL7 message type format"
    ELSE "Ok"

\* validate_hl7_settings: "Ok" or the error it returns
validate_hl7_settings(settings) ==
    IF settings.timeout_ms = 0 \/ settings.timeout_ms > 300000
    THEN "Timeout must be between 1ms and 300000ms (5 minutes)"
    ELSE IF settings.retry_attempts > 10
    THEN "Retry attempts cannot exceed 10"
    ELSE IF settings.encoding # "UTF-8" /\ settings.encoding # "ASCII"
    THEN "Encoding must be UTF-8 or ASCII"
    ELSE IF settings.supported_message_types = <<>>
    THEN "At least one supported message type is required"
    ELSE IF \E i \in DOMAIN settings.supported_message_types :
               ~contains(settings.supported_message_types[i], <<ChCaret>>)
    THEN "Invalid HL7 message type format"
    ELSE "Ok"

\* port: Option<u16> and external_port: Option<u16> of Analyzer: a command
\* whose argument holds another number is rejected before its body runs
FitsU16(analyzer) ==
    \A p \in {analyzer.port, analyzer.external_port} : p = None \/ p[1] \in 0..65535

\* a configuration every check accepts: TCP/IP, "10.0.0.1", port 3000
ValidAnalyzer(protocol) ==
    [connection_type |-> "TcpIp", ip_address |-> Some(<<49, 48, 46, 48, 46, 48, 46, 49>>),
     port |-> Some(3000), external_ip |-> None, external_port |-> None,
     protocol |-> protocol, status |-> "Inactive"]

\* the analyzers the commands are called with: the valid one and every
\* analyzer that differs from it in one field; the other addresses are
\* absent, "10.0.0.256" and "10.0.1"
Analyzers(protocol) ==
    LET a == ValidAnalyzer(protocol)
        bad == Some(<<49, 48, 46, 48, 46, 48, 46, 50, 53, 54>>)
    IN  {a, [a EXCEPT !.connection_type = "Serial"]}
        \cup {[a EXCEPT !.ip_address = ip] : ip \in {None, bad, Some(<<49, 48, 46, 48, 46, 49>>)}}
        \cup {[a EXCEPT !.port = p] : p \in {None, Some(0), Some(65535), Some(65536)}}
        \cup {[a EXCEPT !.external_ip = bad], [a EXCEPT !.external_port = Some(0)]}
        \cup {[a EXCEPT !.protocol = q] : q \in {"Astm", "Hl7V24", "Hl7V231"}}

\* the HL7 settings update_bf6900_config is called with: the default ones
\* and every setting that differs from them in one field
Settings ==
    LET h == HL7Settings_default
    IN  {h}
        \cup {[h EXCEPT !.timeout_ms = t] : t \in {0, 300000, 300001}}
        \cup {[h EXCEPT !.retry_attempts = n] : n \in {10, 11}}
        \cup {[h EXCEPT !.encoding = e] : e \in {"ASCII", "LATIN-1"}}
        \cup {[h EXCEPT !.supported_message_types = t] :
                 t \in {<<>>, <<TypeORU_R01, StrACK>>}}

\* the requests update_bf6900_config is called with: at most one field of
\* the analyzer or of the settings is not the valid one
Bf6900Requests ==
    {[command |-> "update_bf6900_config", analyzer |-> a,
      hl7_settings |-> Some(HL7Settings_default)] : a \in Analyzers("Hl7V24")}
    \cup {[command |-> "update_bf6900_config", analyzer |-> ValidAnalyzer("Hl7V24"),
           hl7_settings |-> Some(h)] : h \in Settings}

\* the response of a command and the request it answers
Responded(request, success, error_message) ==
    [config EXCEPT !.request = Some(request),
                   !.response = Some([success |-> success,
                                      error_message |-> error_message]),
                   !.seq = 1 - @]

\* the update_meril_config command: validate, then set "config" of
\* meril.json to the analyzer; the service is not told
update_meril_config ==
    /\ \E analyzer \in Analyzers("Astm"), store_ok \in BOOLEAN :
         \E request \in {[command |-> "update_meril_config", analyzer |-> analyzer,
                          hl7_settings |-> None]} :
           config' =
             IF ~FitsU16(analyzer)
             THEN Responded(request, FALSE, "invalid args")
             ELSE IF validate_meril_config(analyzer) # "Ok"
             THEN Responded(request, FALSE, validate_meril_config(analyzer))
             ELSE IF ~store_ok
             THEN Responded(request, FALSE, "Failed to access configuration store")
             ELSE [Responded(request, TRUE, "Configuration saved to store")
                     EXCEPT !.meril_json = Some([analyzer |-> analyzer])]
    /\ UNCHANGED <<astmVars, hl7Vars, codecVars, lifeVars, his>>

\* the update_bf6900_config command: validate the analyzer, validate the
\* HL7 settings, then set "config" of bf6900.json to both; the service is
\* not told
update_bf6900_config ==
    /\ \E request \in Bf6900Requests, store_ok \in BOOLEAN :
         \E analyzer \in {request.analyzer}, hl7_settings \in {request.hl7_settings[1]} :
           config' =
             IF ~FitsU16(analyzer)
             THEN Responded(request, FALSE, "invalid args")
             ELSE IF validate_bf6900_config(analyzer) # "Ok"
             THEN Responded(request, FALSE, validate_bf6900_config(analyzer))
             ELSE IF validate_hl7_settings(hl7_settings) # "Ok"
             THEN Responded(request, FALSE, validate_hl7_settings(hl7_settings))
             ELSE IF ~store_ok
             THEN Responded(request, FALSE, "Failed to access configuration store")
             ELSE [Responded(request, TRUE, "Configuration saved to store")
                     EXCEPT !.bf6900_json = Some([analyzer |-> analyzer,
                                                  hl7_settings |-> hl7_settings])]
    /\ UNCHANGED <<astmVars, hl7Vars, codecVars, lifeVars, his>>

\* the configuration commands beside the services starting, which save
\* their own analyzer to the same stores
NextConfig ==
    \/ update_meril_config
    \/ update_bf6900_config
    \/ Start
    \/ StartBF6900

SpecConfig == Init /\ [][NextConfig]_vars

\* ------------------------------------------------------------------------
\* stop(), the accept loop and the driver tasks, one lock acquisition at a
\* time.  The listener mutex is held by a loop from listener.lock() to the
\* end of the iteration; the connections lock is held by a driver during its
\* read and by stop() from connections.write() until it returns.
\* ------------------------------------------------------------------------
\* nobody holds the connections lock
ConnectionsFree ==
    /\ lk.stop # "listener"
    /\ \A d \in DOMAIN lk.drivers : lk.drivers[d] # "read"

LockStep ==
    /\ UNCHANGED <<accept_loop, busy, pending, lastState, lastByte, pubsInTx, eotInTx, laterTx,
                   badRun, naksInRun>>
    /\ UNCHANGED <<hl7Vars, codecVars, meril_service_handle, calls,
                   bf6900_service_handle, boot, his, handled>>

\* the start_meril_service command, called before any stop and while no
\* loop runs
StartOnce ==
    /\ lk.stop = "none"
    /\ loops = <<>>
    /\ start_meril_service

\* stop(): *is_running.write() = false, then it asks for connections.write()
StopSetNotRunning ==
    /\ lk.stop = "none"
    /\ is_running' = FALSE
    /\ lk' = [lk EXCEPT !.stop = "connections"]
    /\ sent' = <<>>
    /\ effects' = <<>>
    /\ UNCHANGED <<listener, status, loops, connections, drivers, accepts, config>>
    /\ LockStep

\* stop(): connections.write() was granted; every stream is shut down and
\* dropped; with the guard still held stop() asks for listener.lock()
StopDrain ==
    /\ lk.stop = "connections"
    /\ ConnectionsFree
    /\ connections' = NoConnections
    /\ lk' = [lk EXCEPT !.stop = "listener"]
    /\ sent' = <<>>
    /\ effects' = <<>>
    /\ UNCHANGED <<is_running, listener, status, loops, drivers, accepts, config>>
    /\ LockStep

\* stop(): listener.lock() was granted; the listener is dropped, the
\* status set to Inactive and saved, AnalyzerStatusUpdated sent; stop()
\* returns and the connections guard is dropped
StopClearListener ==
    /\ lk.stop = "listener"
    /\ LockFree
    /\ listener' = "None"
    /\ status' = "Inactive"
    /\ config' = save_analyzer_to_store(config, "Inactive")
    /\ lk' = [lk EXCEPT !.stop = "returned"]
    /\ sent' = <<"Inactive">>
    /\ effects' = <<>>
    /\ UNCHANGED <<is_running, loops, connections, drivers, accepts>>
    /\ LockStep

\* handle_connections_loop, accept() returned: the second passed or accept
\* failed (the guard is dropped, the loop starts over), or a socket was
\* accepted and the loop asks for connections.write() with the guard held
AcceptReturns ==
    /\ \E i \in DOMAIN loops :
          /\ loops[i] = "accept"
          /\ \E accepted \in BOOLEAN :
                IF accepted
                THEN /\ accepts < MaxAccepts
                     /\ accepts' = accepts + 1
                     /\ loops' = [loops EXCEPT ![i] = "insert"]
                ELSE /\ accepts' = accepts
                     /\ loops' = [loops EXCEPT ![i] = "check"]
    /\ sent' = <<>>
    /\ effects' = <<>>
    /\ UNCHANGED <<is_running, listener, status, connections, drivers, config, lk, handled>>
    /\ LockStep

\* handle_connections_loop, connections.write() was granted: insert the
\* Connection under analyzer_id, send AnalyzerConnected, spawn
\* handle_connection; the listener guard is dropped and the loop starts over
LoopInsert ==
    /\ ConnectionsFree
    /\ \E i \in DOMAIN loops :
          /\ loops[i] = "insert"
          /\ loops' = [loops EXCEPT ![i] = "check"]
    /\ connections' = [k \in {AnalyzerId} |-> NewConnection]
    /\ drivers' = drivers + 1
    /\ lk' = [lk EXCEPT !.drivers = Append(@, "lock")]
    /\ sent' = <<>>
    /\ effects' = <<Ev("AnalyzerConnected")>>
    /\ UNCHANGED <<is_running, listener, status, accepts, config>>
    /\ LockStep

\* handle_connection, connections.write() was granted: with the entry
\* there the driver reads with the guard held, without it the loop is left
DriverLock ==
    /\ ConnectionsFree
    /\ \E d \in DOMAIN lk.drivers :
          /\ lk.drivers[d] = "lock"
          /\ lk' = [lk EXCEPT !.drivers[d] = IF HasConn THEN "read" ELSE "remove"]
    /\ sent' = <<>>
    /\ effects' = <<>>
    /\ UNCHANGED <<is_running, listener, status, loops, connections, drivers, accepts,
                   config>>
    /\ LockStep

\* handle_connection, the read returned after at most 5 s with a timeout
\* (or with bytes, which were processed): the guard is dropped and the loop
\* starts over
DriverReadReturns ==
    /\ \E d \in DOMAIN lk.drivers :
          /\ lk.drivers[d] = "read"
          /\ lk' = [lk EXCEPT !.drivers[d] = "lock"]
    /\ sent' = <<>>
    /\ effects' = <<>>
    /\ UNCHANGED <<is_running, listener, status, loops, connections, drivers, accepts,
                   config>>
    /\ LockStep

\* handle_connection, the read returned 0 bytes or an error: the guard is
\* dropped and the loop is left
DriverReadEnds ==
    /\ \E d \in DOMAIN lk.drivers :
          /\ lk.drivers[d] = "read"
          /\ lk' = [lk EXCEPT !.drivers[d] = "remove"]
    /\ sent' = <<>>
    /\ effects' = <<>>
    /\ UNCHANGED <<is_running, listener, status, loops, connections, drivers, accepts,
                   config>>
    /\ LockStep

\* handle_connection after the loop, connections.write() was granted:
\* remove the entry of analyzer_id, send AnalyzerDisconnected; the task ends
DriverRemove ==
    /\ ConnectionsFree
    /\ \E d \in DOMAIN lk.drivers :
          /\ lk.drivers[d] = "remove"
          /\ lk' = [lk EXCEPT !.drivers = RemoveAt(@, d)]
    /\ connections' = NoConnections
    /\ drivers' = drivers - 1
    /\ sent' = <<>>
    /\ effects' = <<Ev("AnalyzerDisconnected")>>
    /\ UNCHANGED <<is_running, listener, status, loops, accepts, config>>
    /\ LockStep

NextLocks ==
    \/ StartOnce
    \/ StopSetNotRunning
    \/ StopDrain
    \/ StopClearListener
    \/ LoopCheck
    \/ LoopLock
    \/ AcceptReturns
    \/ LoopInsert
    \/ DriverLock
    \/ DriverReadReturns
    \/ DriverReadEnds
    \/ DriverRemove

SpecLocks == Init /\ [][NextLocks]_vars

\* every task runs again and again, a timeout fires, and a lock is granted
\* to a task that keeps asking for it (tokio's locks queue their waiters);
\* nothing obliges a user to call start or stop, or a peer to close
SpecLocksFair ==
    /\ SpecLocks
    /\ WF_vars(LoopCheck) /\ WF_vars(LoopLock) /\ WF_vars(AcceptReturns)
    /\ WF_vars(DriverReadReturns)
    /\ SF_vars(StopDrain) /\ SF_vars(StopClearListener)
    /\ SF_vars(LoopInsert) /\ SF_vars(DriverLock) /\ SF_vars(DriverRemove)

\* get_service_status(): (is_running, connections_count), where is_running
\* is meril_service_handle.is_some()
get_service_status ==
    [is_running |-> meril_service_handle # "None",
     connections_count |-> Cardinality(DOMAIN connections)]

\* ------------------------------------------------------------------------
\* AppState: the event handlers of the supervisor
\* ------------------------------------------------------------------------
\* events each handler is followed for
MaxEvents == 3

\* the test_results of a result event: none, one record, two records
TestResultLists ==
    {<<>>,
     parse_result_record(PayloadResult).result,
     parse_result_record(PayloadResult).result \o parse_result_record(PayloadNumbered).result}

\* what the receiver of handle_meril_events can yield; the event of an ENQ
\* followed at once by EOT is the one process_complete_message sends for a
\* connection without frames
MerilEvents ==
    {Ev("AnalyzerConnected"), Ev("AnalyzerDisconnected"), Ev("AstmMessageReceived"),
     Ev("AnalyzerStatusUpdated"), Ev("Error")}
    \cup {process_complete_message(NewConnection).eff[1]}
    \cup {EvLab(pid, results) : pid \in {None, Some(<<ChP>>)}, results \in TestResultLists}

\* what the receiver of handle_bf6900_events can yield
BF6900Events ==
    {Ev("AnalyzerConnected"), Ev("AnalyzerDisconnected"), Ev("HL7MessageReceived"),
     Ev("AnalyzerStatusUpdated"), Ev("CelquantIdentificationReceived"), Ev("Error")}
    \cup {EvHematology(pid, results) :
              pid \in {None, Some(<<ChP>>)}, results \in TestResultLists}

\* one pass of the `while let Some(event)` loop of a handler: the event is
\* taken, and when spawn holds tokio::spawn starts a task that sends the
\* clones of patient_id and test_results to the HIS
TakeEvent(event, spawn) ==
    handled' = [count |-> handled.count + 1,
                event |-> event,
                tasks |-> IF spawn
                          THEN Append(handled.tasks,
                                      [patient_id |-> event.patient_id,
                                       test_results |-> event.test_results])
                          ELSE handled.tasks]

\* handle_meril_events that spawns for every LabResultProcessed
handle_meril_events_SpawnsForEmpty ==
    /\ handled.count < MaxEvents
    /\ \E event \in MerilEvents :
          TakeEvent(event, event.name = "LabResultProcessed")
    /\ UNCHANGED <<astmVars, hl7Vars, codecVars, his, config>>
    /\ UNCHANGED <<status, loops, sent, meril_service_handle, calls,
                   bf6900_service_handle, boot, lk>>

\* handle_meril_events: LabResultProcessed with `!test_results.is_empty()`
\* spawns send_meril_results; every event is emitted to the frontend
handle_meril_events ==
    /\ handled.count < MaxEvents
    /\ \E event \in MerilEvents :
          TakeEvent(event, event.name = "LabResultProcessed" /\ event.test_results # <<>>)
    /\ UNCHANGED <<astmVars, hl7Vars, codecVars, his, config>>
    /\ UNCHANGED <<status, loops, sent, meril_service_handle, calls,
                   bf6900_service_handle, boot, lk>>

\* handle_bf6900_events: the same for HematologyResultProcessed and
\* send_hematology_results
handle_bf6900_events ==
    /\ handled.count < MaxEvents
    /\ \E event \in BF6900Events :
          TakeEvent(event, event.name = "HematologyResultProcessed"
                              /\ event.test_results # <<>>)
    /\ UNCHANGED <<astmVars, hl7Vars, codecVars, his, config>>
    /\ UNCHANGED <<status, loops, sent, meril_service_handle, calls,
                   bf6900_service_handle, boot, lk>>

NextEvents ==
    \/ handle_meril_events
    \/ handle_bf6900_events

SpecEvents == Init /\ [][NextEvents]_vars

\* ------------------------------------------------------------------------
\* Vocabulary of the claims
\* ------------------------------------------------------------------------
IsWrite(e) == e.kind = "write"

IsLabResult(e) == e.kind = "event" /\ e.name = "LabResultProcessed"

\* the bytes written to the socket by the latest step, in order
Writes(eff) == SelectSeq(eff, IsWrite)

\* the driver is about to consume a byte in FSM state st
Consuming(st) ==
    /\ busy
    /\ pending # <<>>
    /\ HasConn
    /\ Conn.state = st

\* the driver is about to consume byte b in FSM state st
AboutToConsume(st, b) == Consuming(st) /\ Head(pending) = b

\* the frame that is complete once LF is consumed in WaitingForLF
CompletedFrame == Append(Conn.current_frame, ASTM_LF)

\* a frame in the layout of the wire format: STX, payload free of
\* terminators, ETX or ETB, checksum byte, CR, LF
FramedWith(f, term) ==
    /\ Len(f) >= 6
    /\ f[1] = ASTM_STX
    /\ f[Len(f) - 3] = term
    /\ f[Len(f) - 1] = ASTM_CR
    /\ f[Len(f)] = ASTM_LF
    /\ \A i \in 2..(Len(f) - 4) : f[i] \notin {ASTM_ETX, ASTM_ETB}

Payload(f) == SubSeq(f, 2, Len(f) - 4)

\* the payload is a result record: record type 'R' as its first byte and at
\* least 4 fields
CarriesResult(f) ==
    /\ Payload(f) # <<>>
    /\ Payload(f)[1] = ChR
    /\ Len(SplitOn(Payload(f), ChBar)) >= 4

\* a complete frame, well-formed but for its checksum byte, with a result record
BadChecksumResultFrame(f) ==
    /\ FramedWith(f, ASTM_ETX)
    /\ CarriesResult(f)
    /\ ~validate_checksum(f)

\* C1: every frame that decodes gets exactly one ACK and every frame whose
\* decode fails gets exactly one NAK, written in the step that consumes the
\* frame's LF, i.e. before the next input byte is consumed.
C1_OneResponsePerFrame ==
    [][AboutToConsume("WaitingForLF", ASTM_LF) =>
         LET ex == extract_frame_data(CompletedFrame)
             decoded == ex.ok /\ parse_record_type(ex.data).res = "ok"
         IN  Writes(effects') = IF decoded THEN <<Wr(ASTM_ACK)>> ELSE <<Wr(ASTM_NAK)>>]_vars

\* C2 (as stated): LabResultProcessed is published only after the ACK that
\* answers EOT has been written.
C2_PublishedAfterEotAck ==
    \A i \in 1..Len(effects) :
        IsLabResult(effects[i]) => \E j \in 1..(i - 1) : effects[j] = Wr(ASTM_ACK)

\* C2 (amended): LabResultProcessed is published in the step that consumes
\* EOT in WaitingForFrame, and the ACK answering that EOT is written right
\* after it; nothing is written before the event.
C2_PublishedBeforeEotAck ==
    \A i \in 1..Len(effects) :
        IsLabResult(effects[i]) =>
            /\ lastState = "WaitingForFrame"
            /\ lastByte = ASTM_EOT
            /\ i = 1
            /\ Len(effects) = 2
            /\ effects[2] = Wr(ASTM_ACK)

C2_Witness ==
    /\ lastByte = ASTM_EOT
    /\ \E i \in 1..Len(effects) : IsLabResult(effects[i])

C5_NonCrIsNaked ==
    [][(Consuming("WaitingForCR") /\ Head(pending) # ASTM_CR) =>
             /\ Writes(effects') = <<Wr(ASTM_NAK)>>
             /\ Conn'.current_frame = <<>>
             /\ Conn'.state = "WaitingForFrame"]_vars

\* C6: once the analyzer has sent MalformedRun malformed frames in a row,
\* as many NAKs were written and the driver has closed the connection.
C6_RetryExhaustionCloses ==
    (badRun = MalformedRun /\ ~busy) => (naksInRun = MalformedRun /\ ~HasConn)

\* C7: an STX consumed while a frame is in flight discards that frame and
\* restarts in ProcessingFrame with a buffer holding only the new STX.
C7_NestedStxRestarts ==
    [][\A st \in {"ProcessingFrame", "WaitingForChecksum", "WaitingForCR", "WaitingForLF"} :
         AboutToConsume(st, ASTM_STX) =>
             /\ Conn'.state = "ProcessingFrame"
             /\ Conn'.current_frame = <<ASTM_STX>>]_vars

\* C8: a frame that is well-formed but for a wrong checksum byte is accepted:
\* it is answered with exactly one ACK and appended to the reassembly, and
\* the result record it carries is in the LabResultProcessed published at
\* EOT.
C8_BadChecksumAccepted ==
    [][/\ (AboutToConsume("WaitingForLF", ASTM_LF) /\ BadChecksumResultFrame(CompletedFrame)) =>
              /\ Writes(effects') = <<Wr(ASTM_ACK)>>
              /\ Conn'.frame_buffer = Append(Conn.frame_buffer, CompletedFrame)
       /\ AboutToConsume("WaitingForFrame", ASTM_EOT) =>
              \A k \in 1..Len(Conn.frame_buffer) :
                 BadChecksumResultFrame(Conn.frame_buffer[k]) =>
                    \E i \in 1..Len(effects') :
                       /\ IsLabResult(effects'[i])
                       /\ \E n \in 1..Len(effects'[i].test_results) :
                             effects'[i].test_results[n] =
                                parse_result_record(Payload(Conn.frame_buffer[k])).result[1]
      ]_vars

\* C9: a frame terminated by ETB is handled like one terminated by ETX: the
\* terminator leads to WaitingForChecksum and, after checksum, CR and LF,
\* the frame is decoded, appended to the reassembly and answered with ACK.
C9_EtbLikeEtx ==
    [][/\ \A t \in {ASTM_ETX, ASTM_ETB} :
            AboutToConsume("ProcessingFrame", t) => Conn'.state = "WaitingForChecksum"
       /\ \A t \in {ASTM_ETX, ASTM_ETB} :
            (/\ AboutToConsume("WaitingForLF", ASTM_LF)
             /\ FramedWith(CompletedFrame, t)
             /\ Len(CompletedFrame) >= 7) =>
                /\ Writes(effects') = <<Wr(ASTM_ACK)>>
                /\ Conn'.frame_buffer = Append(Conn.frame_buffer, CompletedFrame)
                /\ Conn'.state = "WaitingForFrame"
      ]_vars

\* ------------------------------------------------------------------------
\* Vocabulary of the HL7 claims
\* ------------------------------------------------------------------------
\* the effects of the handling of the i-th frame of a read
EffectsOfFrame(eff, i) ==
    LET s == CHOOSE j \in Starts(eff) : Cardinality({k \in Starts(eff) : k <= j}) = i
        later == {k \in Starts(eff) : k > s}
        e == IF later = {} THEN Len(eff)
             ELSE (CHOOSE k \in later : \A o \in later : k <= o) - 1
    IN  SubSeq(eff, s, e)

\* the latest read ended with process_hl7_data returning Err
HasError(eff) == \E j \in 1..Len(eff) : eff[j] = Ev("Error")

\* frame i of the latest read was taken off the buffer and the write of its
\* response did not fail
Answerable(i) ==
    /\ Reached(FrameList(bf_read), i)
    /\ HasError(bf_effects) => i < Cardinality(Starts(bf_effects))

\* the acknowledgment code of a written response
AckCode(w) == SubSeq(w.bytes, 6, 7)

\* the MLLP frames that can be taken off the front of a buffer, one after
\* the other
RECURSIVE FramesIn(_)
FramesIn(buffer) ==
    LET ex == extract_complete_mllp_message(buffer)
    IN  IF ex.found THEN 1 + FramesIn(ex.buffer) ELSE 0

\* bytes VT "MSA|AA|..." FS CR or VT "MSA|AE|..." FS CR
IsWrappedAck(w) ==
    /\ Len(w) >= 9
    /\ w[1] = MLLP_START_BLOCK
    /\ w[Len(w) - 1] = MLLP_END_BLOCK
    /\ w[Len(w)] = MLLP_CARRIAGE_RETURN
    /\ SubSeq(w, 2, 5) = StrMSA
    /\ SubSeq(w, 6, 7) \in {CodeAA, CodeAE}

\* C10: a read of the HL7 driver during which no socket write fails writes
\* exactly one acknowledgment per MLLP frame that the buffer with the chunk
\* appended holds, each with code AA or AE and wrapped in VT ... FS CR, and
\* writes nothing else.
C10_OneAckPerFrame ==
    ~HasError(bf_effects) =>
        /\ Len(Writes(bf_effects)) = FramesIn(bf_read)
        /\ \A i \in 1..Len(bf_effects) :
              IsWrite(bf_effects[i]) => IsWrappedAck(bf_effects[i].bytes)

\* a message that parses and whose type is not supported, or a result
\* message (ORU^R01, OUL^R21) without OBX segment
Rejected(m) ==
    /\ ParsedOf(m).res = "ok"
    /\ \/ ~is_supported_message_type(ParsedOf(m).msg.message_type)
       \/ /\ ParsedOf(m).msg.message_type \in {TypeORU_R01, TypeOUL_R21}
          /\ ~HasSegment(ParsedOf(m).msg, StrOBX)

\* C11: a message of an unsupported type, or a result message without OBX
\* segment, is answered with exactly one response, a NAK with code AE, and
\* no HematologyResultProcessed is published for it (for every frame the
\* driver reaches and whose response the socket takes).
C11_InvalidIsNaked ==
    \A i \in 1..Len(FrameList(bf_read)) :
        (Rejected(FrameList(bf_read)[i]) /\ Answerable(i)) =>
            /\ Cardinality(Starts(bf_effects)) >= i
            /\ \E fe \in {EffectsOfFrame(bf_effects, i)} :
                  /\ Len(Writes(fe)) = 1
                  /\ IsWrappedAck(Writes(fe)[1].bytes)
                  /\ AckCode(Writes(fe)[1]) = CodeAE
                  /\ \A k \in 1..Len(fe) : ~IsHematology(fe[k])

\* a result message without OBX was answered
C11_Witness ==
    \E i \in 1..Len(FrameList(bf_read)) :
        /\ Rejected(FrameList(bf_read)[i])
        /\ ParsedOf(FrameList(bf_read)[i]).msg.message_type = TypeORU_R01
        /\ Cardinality(Starts(bf_effects)) >= i
        /\ AckCode(Writes(EffectsOfFrame(bf_effects, i))[1]) = CodeAE

\* every HematologyResultProcessed comes right after the write of an
\* acknowledgment with code AA
AckBeforePublish ==
    \A j \in 1..Len(bf_effects) :
        IsHematology(bf_effects[j]) =>
            /\ j > 1
            /\ IsWrite(bf_effects[j - 1])
            /\ AckCode(bf_effects[j - 1]) = CodeAA

C13_DroppedAboveFive ==
    (HasHL7Conn /\ bf_before >= 0) => HL7Conn.retry_count <= 5

\* the positions of the PID segments of a parsed message
PidPositions(msg) == {k \in 1..Len(msg.segments) : msg.segments[k].segment_type = StrPID}

\* the identifier list (PID-3) of the last PID segment, as the optional
\* patient id of the event: <<>> when the message has no PID segment
ExpectedPatientId(msg) ==
    IF PidPositions(msg) = {} THEN <<>>
    ELSE <<FieldOr(msg.segments[CHOOSE k \in PidPositions(msg) :
                                   \A o \in PidPositions(msg) : o <= k].fields, 3)>>

\* C14: the HematologyResultProcessed published for a message carries as
\* patient id the identifier-list field of the message's PID segment, and
\* no patient when the message has no PID segment.
C14_PatientIdFromPid ==
    \A i \in 1..Cardinality(Starts(bf_effects)) :
        \A fe \in {EffectsOfFrame(bf_effects, i)} :
            \A k \in 1..Len(fe) :
                IsHematology(fe[k]) =>
                    fe[k].patient_id = ExpectedPatientId(ParsedOf(FrameList(bf_read)[i]).msg)

\* a result was published for a message with a PID segment
C14_Witness ==
    \E k \in 1..Len(bf_effects) :
        /\ IsHematology(bf_effects[k])
        /\ bf_effects[k].patient_id # <<>>
        /\ PidPositions(ParsedOf(FrameList(bf_read)[1]).msg) # {}

\* ------------------------------------------------------------------------
\* Claims on the framing functions
\* ------------------------------------------------------------------------
\* buffer b holds a VT at v and an FS CR pair at f, f + 1 after it
FramedAt(b, v, f) ==
    /\ v < f
    /\ f < Len(b)
    /\ b[v] = MLLP_START_BLOCK
    /\ b[f] = MLLP_END_BLOCK
    /\ b[f + 1] = MLLP_CARRIAGE_RETURN

\* C15: extract on a session buffer.  When the buffer holds a VT followed
\* later by an FS CR pair, the result is the bytes between the first VT and
\* the next FS CR pair after it, and the buffer keeps only what follows that
\* pair; the bytes before the VT are not in the result.  Otherwise the
\* result is none and the buffer is unchanged.
C15_ExtractFromBuffer ==
    codec_op = "extract" =>
        \A b \in {codec_out.arg} :
            IF \E v, f \in 1..Len(b) : FramedAt(b, v, f)
            THEN /\ codec_out.found
                 /\ \E v, f \in 1..Len(b) :
                       /\ FramedAt(b, v, f)
                       /\ \A u \in 1..(v - 1) : b[u] # MLLP_START_BLOCK
                       /\ \A g \in (v + 1)..(f - 1) : ~FramedAt(b, v, g)
                       /\ codec_out.message_data = SubSeq(b, v + 1, f - 1)
                       /\ codec_text = SubSeq(b, f + 2, Len(b))
            ELSE /\ ~codec_out.found
                 /\ codec_text = b

\* a message was taken from a buffer with bytes before the VT and bytes
\* after the end marker
C15_Witness ==
    /\ codec_op = "extract"
    /\ codec_out.found
    /\ codec_out.arg[1] # MLLP_START_BLOCK
    /\ codec_out.message_data # <<>>
    /\ codec_text # <<>>

\* C16: MLLP round trip: extracting from the frame VT t FS CR built for a
\* text t that holds neither VT nor FS yields exactly t.
C16_MllpRoundTrip ==
    (/\ codec_op = "roundtrip"
     /\ \A k \in 1..Len(codec_out.arg) :
           codec_out.arg[k] \notin {MLLP_START_BLOCK, MLLP_END_BLOCK}) =>
        /\ codec_out.found
        /\ codec_out.message_data = codec_out.arg

\* a text with a CR inside made the round trip
C16_Witness ==
    /\ codec_op = "roundtrip"
    /\ codec_out.found
    /\ Len(codec_out.arg) >= 3
    /\ codec_out.arg[2] = MLLP_CARRIAGE_RETURN
    /\ codec_out.message_data = codec_out.arg

\* C17 (as stated): Frame::parse gives back every frame that Frame::encode
\* encoded, for sequence numbers 0..7 and any content (within the 240 bytes).
C17_FrameRoundTrip ==
    codec_op = "frame" =>
        /\ codec_out.found
        /\ codec_out.message_data = codec_out.arg

\* C17 (amended): Frame::parse gives back every frame that Frame::encode
\* encoded, for sequence numbers 0..7 and content that holds neither ETX
\* nor ETB.
C17_FrameRoundTripPlainContent ==
    (/\ codec_op = "frame"
     /\ \A k \in 1..Len(codec_out.arg.content) :
           codec_out.arg.content[k] \notin {ASTM_ETX, ASTM_ETB}) =>
        /\ codec_out.found
        /\ codec_out.message_data = codec_out.arg

\* an intermediate frame with sequence number 7 and content made the round
\* trip
C17_Witness ==
    /\ codec_op = "frame"
    /\ codec_out.found
    /\ codec_out.arg.sequence = 7
    /\ ~codec_out.arg.is_last_frame
    /\ Len(codec_out.arg.content) >= 2
    /\ codec_out.message_data = codec_out.arg

\* the loops that passed the is_running check and are at, or inside, accept()
PastCheck == {i \in DOMAIN loops : loops[i] \in {"lock", "accept"}}

\* C18: whatever start and stop requests were made, a running service has at
\* most one accept loop (and one stored listener) for its analyzer: never
\* two handle_connections_loop tasks that both go on accepting
C18_OneAcceptLoop ==
    (is_running /\ listener = "Some") => Cardinality(PastCheck) <= 1

Latest == calls[Len(calls)]

Starting(c) == c.op \in {"start", "start_internal"}

Stopping(c) == c.op \in {"stop", "stop_internal"}

\* C19: a start request made while the service is running returns the
\* AlreadyRunning error and changes nothing, a stop request made while it is
\* not running returns the NotRunning error, and so does the second of two
\* stop requests in a row
C19_StartStopErrors ==
    calls # <<>> =>
        /\ (Starting(Latest) /\ Latest.running) =>
               (Latest.result = "AlreadyRunning" /\ ~Latest.changed)
        /\ (Stopping(Latest) /\ ~Latest.running) => Latest.result = "NotRunning"
        /\ (Len(calls) = 2 /\ Stopping(calls[1]) /\ Stopping(Latest)) =>
               Latest.result = "NotRunning"

\* C20: when the bind of the listener fails, start() returns the error and
\* leaves the service as it was: the status is not set to Active, no
\* AnalyzerStatusUpdated(Active) is sent, no accept loop is spawned and
\* is_running is not set; the same holds for a start() that fails inside
\* stop_meril_service_internal, which leaves the stopped service Inactive
C20_BindFailureStartsNothing ==
    calls # <<>> =>
        /\ (Latest.op = "start" /\ Latest.result = "FailedToBind") =>
               (~Latest.changed /\ sent = <<>>)
        /\ (Latest.op = "stop_internal" /\ Latest.result = "FailedToBind") =>
               (status = "Inactive" /\ ~is_running /\ sent # <<"Inactive", "Active">>)

\* start() failed to bind on a service that was not running: the port is
\* held by another program
C20_Witness ==
    /\ calls # <<>>
    /\ Latest.op = "start"
    /\ Latest.result = "FailedToBind"
    /\ ~Latest.running
    /\ status = "Inactive"
    /\ loops = <<>>
    /\ sent = <<>>

\* a stop request has just returned Ok on a service that was running
StopReturned ==
    /\ calls' # calls
    /\ Latest'.op \in {"stop", "stop_internal"}
    /\ Latest'.running
    /\ Latest'.result = "Ok"
    /\ ~is_running'

\* C21: when stop() returns Ok on a running service, no accept loop is left,
\* every session has been shut down and removed, the status is Inactive and
\* AnalyzerStatusUpdated(Inactive) has been sent
C21_StopEndsLoopAndSessions ==
    [][StopReturned => (/\ loops' = <<>>
                        /\ connections' = NoConnections
                        /\ status' = "Inactive"
                        /\ sent' = <<"Inactive">>)]_vars

\* get_connections_count(): the number of entries of the connections map
get_connections_count == Cardinality(DOMAIN connections)

\* C22: whenever no driver is in the middle of a read, the connection count
\* of the service equals the number of its live driver tasks, also after
\* several sockets were accepted
C22_CountIsLiveDrivers ==
    ~busy => get_connections_count = drivers

\* the step accepted a socket / ended a driver task / accepted a frame
SocketAccepted == accepts' = accepts + 1

DriverExited == drivers' = drivers - 1

FrameAccepted ==
    /\ lastState' = "WaitingForLF"
    /\ lastByte' = ASTM_LF
    /\ CountOf(effects', Wr(ASTM_ACK)) > 0

\* C23: an accepted socket gives one AnalyzerConnected, sent with the spawn
\* of its driver; every frame the driver accepts gives AstmMessageReceived;
\* a driver that exits sends AnalyzerDisconnected exactly once, as the last
\* of its events
C23_SessionEvents ==
    [][/\ SocketAccepted =>
             (effects' = <<Ev("AnalyzerConnected")>> /\ drivers' = drivers + 1)
       /\ FrameAccepted => CountEvents(effects', "AstmMessageReceived") = 1
       /\ DriverExited =>
             /\ CountEvents(effects', "AnalyzerDisconnected") = 1
             /\ effects'[Len(effects')] = Ev("AnalyzerDisconnected")]_vars

\* C24: whatever happened inside the sessions (framing and processing
\* errors, closed sockets, drivers that ended), a running service still has
\* its accept loop and its listener, and the loop accepts the next socket as
\* soon as no driver holds the connections lock
C24_ListenerSurvivesSessions ==
    is_running =>
        /\ accept_loop = "running"
        /\ listener = "Some"
        /\ (~busy /\ accepts < MaxAccepts) => ENABLED Accept

\* a second socket was accepted after the driver of the first one had ended
C24_Witness ==
    /\ is_running
    /\ accepts = 2
    /\ drivers = 1
    /\ effects = <<Ev("AnalyzerConnected")>>

\* C25: initialize() calls the start of every service whose
\* activate_on_start is set and returns Ok, and a service whose start()
\* failed leaves the task of the other service in place
C25_BootStartsEveryActivatedService ==
    boot.done =>
        /\ boot.result = "Ok"
        /\ boot.meril_started = boot.meril
        /\ boot.bf6900_started = boot.bf6900
        /\ boot.bf6900 => bf6900_service_handle # "None"
        /\ (boot.meril /\ boot.bf6900 /\ meril_service_handle = "FailedToBind") =>
               bf6900_service_handle \in {"Spawned", "Ok", "FailedToBind"}

\* both services were to be started, the start() of the Meril service
\* failed to bind and the BF-6900 service is running
C25_Witness ==
    /\ boot.done
    /\ boot.meril
    /\ boot.bf6900
    /\ meril_service_handle = "FailedToBind"
    /\ ~is_running
    /\ bf6900_service_handle = "Ok"
    /\ bf_is_running

Is2xx(response) == response >= 200 /\ response <= 299

\* C26: a delivery posts at most retry_attempts times and always the same
\* body; every response but a 2xx one is a failure and nothing is posted
\* after a 2xx one; one delay is waited between two attempts; the delivery
\* ends with Ok on the first 2xx and with an error after retry_attempts
\* failures; responses 500, 500, 200 give three posts and Ok
C26_RetryPolicy ==
    LET n == Len(his.posts)
    IN  /\ n <= his.retry_attempts
        /\ Len(his.responses) = n
        /\ \A i \in 1..n : his.posts[i] = his.payload
        /\ \A i \in 1..(n - 1) : ~Is2xx(his.responses[i])
        /\ his.pc = "post" => his.sleeps = n
        /\ (his.pc \in {"sleep", "done"} /\ n > 0) => his.sleeps = n - 1
        /\ his.pc = "sleep" => (~Is2xx(his.responses[n]) /\ n < his.retry_attempts)
        /\ his.pc = "done" =>
              /\ his.result = "Ok" <=> (n > 0 /\ Is2xx(his.responses[n]))
              /\ his.result = "Err" <=> (n = his.retry_attempts /\
                                           \A i \in 1..n : ~Is2xx(his.responses[i]))
        /\ (n = 3 /\ his.responses = <<500, 500, 200>>) =>
              (his.pc = "done" /\ his.result = "Ok" /\ his.sleeps = 2)

\* three attempts allowed, responses 500, 500, 200: three posts of the same
\* body, two delays, Ok
C26_Witness ==
    /\ his.retry_attempts = 3
    /\ his.responses = <<500, 500, 200>>
    /\ his.posts = <<his.payload, his.payload, his.payload>>
    /\ his.pc = "done"
    /\ his.result = "Ok"

InProgress == his.pc \in {"post", "sleep"}

\* C27: a delivery in progress is not ended by stop(): whatever the state
\* of the service, its next attempt or delay can be taken, it is over only
\* after a 2xx response or after retry_attempts failed posts, and stop()
\* can return while it is in progress
C27_DeliveryOutlivesStop ==
    /\ InProgress => (ENABLED HisPost \/ ENABLED HisSleep)
    /\ his.pc = "done" =>
          \/ /\ his.result = "Ok"
             /\ his.posts # <<>>
             /\ Is2xx(his.responses[Len(his.responses)])
          \/ /\ his.result = "Err"
             /\ Len(his.posts) = his.retry_attempts
    /\ (InProgress /\ LockFree) => ENABLED stop_meril_service
    /\ (InProgress /\ LockFree /\ meril_service_handle \in {"Ok", "FailedToBind"}) =>
          ENABLED stop_meril_service_internal

\* a delivery spawned while the service was running posted again after the
\* service had been stopped, and then succeeded
C27_Witness ==
    /\ his.outlived_stop
    /\ ~is_running
    /\ calls # <<>>
    /\ Stopping(Latest)
    /\ Latest.result = "Ok"
    /\ his.pc = "done"
    /\ his.result = "Ok"
    /\ Len(his.posts) >= 2

\* str::to_lowercase on ASCII text
to_lowercase(text) ==
    [i \in 1..Len(text) |->
        IF text[i] >= 65 /\ text[i] <= 90 THEN text[i] + 32 ELSE text[i]]

\* C28: the mapping gives a machine name for every analyzer id, the same
\* name for ids that differ only in letter case, and Unknown-Analyzer for an
\* id that holds none of the known substrings
C28_MachineNameIgnoresCase ==
    codec_op = "machine" =>
        /\ codec_out.message_data \in
              {"Meril CQ 5 Plus", "Meril-3.6-11052213", "Unknown-Analyzer"}
        /\ codec_out.message_data =
              get_machine_name_for_analyzer(to_lowercase(codec_out.arg))
        /\ (\A w \in {Known[k] : k \in DOMAIN Known} :
               ~contains(codec_out.arg, w)) =>
              codec_out.message_data = "Unknown-Analyzer"

\* the configuration of a request is invalid in one of the ways named: wrong
\* protocol family, unparsable IP, port outside 1..65535, timeout outside
\* (0, 300000], more than 10 retry attempts, unsupported encoding, a message
\* type without '^'
Invalid(request) ==
    \/ request.command = "update_meril_config" /\ request.analyzer.protocol # "Astm"
    \/ request.command = "update_bf6900_config"
          /\ request.analyzer.protocol \notin {"Hl7", "Hl7V24", "Hl7V231"}
    \/ request.analyzer.ip_address # None
          /\ ~validate_ip_address(request.analyzer.ip_address[1])
    \/ request.analyzer.port # None /\ request.analyzer.port[1] \notin 1..65535
    \/ /\ request.hl7_settings # None
       /\ \E h \in {request.hl7_settings[1]} :
             \/ h.timeout_ms \notin 1..300000
             \/ h.retry_attempts > 10
             \/ h.encoding \notin {"UTF-8", "ASCII"}
             \/ \E i \in DOMAIN h.supported_message_types :
                   ChCaret \notin {h.supported_message_types[i][j] :
                                     j \in DOMAIN h.supported_message_types[i]}

\* C29: an update command called with an invalid configuration answers with
\* an error and changes neither store nor the analyzer of either service
C29_InvalidConfigChangesNothing ==
    [][(config'.seq # config.seq /\ Invalid(config'.request[1])) =>
          /\ ~config'.response[1].success
          /\ config'.meril_json = config.meril_json
          /\ config'.bf6900_json = config.bf6900_json
          /\ config'.autoquant_meril = config.autoquant_meril
          /\ config'.bf6900 = config.bf6900
          /\ status' = status]_vars

\* an invalid BF-6900 configuration was refused while both services ran and
\* bf6900.json held a configuration saved by an earlier update
C29_Witness ==
    /\ config.request # None
    /\ config.request[1].command = "update_bf6900_config"
    /\ Invalid(config.request[1])
    /\ ~config.response[1].success
    /\ is_running /\ bf_is_running
    /\ config.bf6900_json # None
    /\ config.bf6900_json[1].analyzer.protocol = "Hl7V24"

\* the latest step of the BF-6900 driver was a read that timed out
TimedOut == bf_before' = -2

\* C30: after a read timeout the session is open with the buffer and the
\* retry count it had and the same driver, and nothing was sent; the session
\* is closed by a timeout only if it was Unhealthy with retry_count > 5
C30_TimeoutKeepsSession ==
    [][TimedOut =>
          \/ /\ HasHL7Conn'
             /\ bf_drivers' = bf_drivers
             /\ HL7Conn'.message_buffer = HL7Conn.message_buffer
             /\ HL7Conn'.retry_count = HL7Conn.retry_count
             /\ bf_effects' = <<>>
          \/ /\ ~HasHL7Conn'
             /\ HL7Conn.health_status = "Unhealthy"
             /\ HL7Conn.retry_count > 5]_vars

\* a read timed out in a session that holds part of a message and has
\* failed before; the session is open
C30_Witness ==
    /\ bf_before = -2
    /\ HasHL7Conn
    /\ bf_drivers > 0
    /\ HL7Conn.message_buffer # <<>>
    /\ HL7Conn.retry_count > 0

\* the same for the AutoQuant driver: a read timeout leaves the Connection,
\* its FSM state and frame buffers, and the driver as they were
AstmTimeoutKeepsSession ==
    [][lastByte' = -2 =>
          /\ HasConn'
          /\ connections' = connections
          /\ drivers' = drivers
          /\ effects' = <<>>]_vars

\* stop() holds the connections lock and waits for the listener mutex, whose
\* holder, an accept loop with a socket to insert, waits for the connections
\* lock
LockCycle ==
    /\ lk.stop = "listener"
    /\ \E i \in DOMAIN loops : loops[i] = "insert"

\* C31: once stop() was called, every accept loop and every driver task of
\* the service ends, whatever the connected analyzers do
C31_StopEndsEveryTask ==
    (lk.stop # "none") ~> (loops = <<>> /\ lk.drivers = <<>>)

\* C36: stop(), the accept loop and the drivers never wait for each other in
\* a cycle on the connections lock and the listener mutex
C36_NoLockCycle ==
    ~LockCycle

C33_BytesAfterEotAreConsumed ==
    [][(AboutToConsume("WaitingForFrame", ASTM_EOT) /\ pending' # pending) =>
            pending' = Tail(pending)]_vars

\* C34: when process_astm_data returned an error for the byte it consumed,
\* the session is in WaitingForFrame with no frame in flight
C34_ErrorLeavesWaitingForFrame ==
    (/\ lastByte >= 0
     /\ HasConn
     /\ \E i \in 1..Len(effects) : effects[i] = Ev("Error")) =>
        /\ Conn.state = "WaitingForFrame"
        /\ Conn.current_frame = <<>>

\* C35: an accept adds one entry to the map and leaves every entry already
\* there as it was; a driver that exits while other drivers are alive leaves
\* an entry for them
C35_OwnSessionEntry ==
    [][/\ accepts' = accepts + 1 =>
            /\ Cardinality(DOMAIN connections') = Cardinality(DOMAIN connections) + 1
            /\ \A k \in DOMAIN connections :
                    k \in DOMAIN connections' /\ connections'[k] = connections[k]
       /\ (drivers' = drivers - 1 /\ drivers' > 0) => connections' # NoConnections
      ]_vars

\* a result event with a non-empty test_results list
IsNonEmptyResult(e) ==
    /\ IsLabResult(e) \/ IsHematology(e)
    /\ e.test_results # <<>>

\* C37: a handler that takes a result event with test results spawns exactly
\* one delivery task, carrying the patient id and the results of that event;
\* for any other event, a result event without test results included, it
\* spawns none, and tasks are spawned by no other step
C37_OneTaskPerNonEmptyResult ==
    [][/\ handled'.count = handled.count + 1 =>
            handled'.tasks =
                IF IsNonEmptyResult(handled'.event)
                THEN Append(handled.tasks,
                            [patient_id |-> handled'.event.patient_id,
                             test_results |-> handled'.event.test_results])
                ELSE handled.tasks
       /\ handled'.tasks # handled.tasks => handled'.count = handled.count + 1
      ]_vars

\* the handler took the event of an ENQ followed at once by EOT after an
\* event with results: one task was spawned, for the first of the two
C37_Witness ==
    /\ handled.count = 2
    /\ handled.event = process_complete_message(NewConnection).eff[1]
    /\ Len(handled.tasks) = 1
    /\ handled.tasks[1].test_results # <<>>

\* C38: when stop_meril_service_internal() returns, with Ok or with an
\* error, no handle is stored, so a start_meril_service_internal() that
\* follows spawns a task and is not answered "already running"
C38_StopClearsHandle ==
    [][(calls' # calls /\ calls'[Len(calls')].op = "stop_internal") =>
            /\ meril_service_handle' = "None"
            /\ start_service_internal(meril_service_handle').result = "Ok"]_vars

\* a stop that returned the bind error of the task, then a start that was
\* accepted
C38_Witness ==
    /\ Len(calls) = 2
    /\ calls[1].op = "stop_internal"
    /\ calls[1].result = "FailedToBind"
    /\ calls[2].op = "start_internal"
    /\ calls[2].result = "Ok"
    /\ meril_service_handle = "Spawned"

\* C39: while the handle holds a task whose service.start() failed, the
\* supervisor reports the service as not running and accepts a start
C39_FailedStartIsNotRunning ==
    meril_service_handle = "FailedToBind" =>
        /\ ~get_service_status.is_running
        /\ start_service_internal(meril_service_handle).result # "AlreadyRunning"

\* C40: the receive buffer of a session keeps no data without a start
\* block: when process_hl7_data has returned, a message_buffer in which no
\* VT occurs is empty
C40_DataWithoutVtIsDiscarded ==
    (HasHL7Conn /\ Position(HL7Conn.message_buffer, MLLP_START_BLOCK) = 0) =>
        HL7Conn.message_buffer = <<>>

====
